---- MODULE Spec2Model ----
(***************************************************************************)
(* Dataset lifecycle, snapshot cache and request handling of src/xig.js.   *)
(*                                                                         *)
(* The program is a single-threaded event loop.  Every action below is one *)
(* callback (one macrotask) together with the synchronous code and promise *)
(* continuations that run before the next callback: an `await` on an       *)
(* asynchronous operation ends an action, the callback of that operation   *)
(* starts the next one.                                                    *)
(*                                                                         *)
(* Objects (sqlite3.Database, snapshot) are records in `conns` and `snaps` *)
(* and references to them are indices; an object nothing references is     *)
(* forgotten and its index is used again.  Spec is the lifecycle from      *)
(* module load; SpecReq adds GET /resources requests to a running server.  *)
(*                                                                         *)
(* The query functions are operators.  A string is the sequence of its     *)
(* characters, the generated SQL text a sequence of template words and     *)
(* characters, which the engine reads back by the quoting rules of SQL.    *)
(* SpecFilter compiles facet values with buildSqlFilter, SpecPages counts  *)
(* and pages a listing, SpecStats builds the summary breakdowns; each runs *)
(* on one dataset and one snapshot, with no refresh in progress.  So do    *)
(* SpecPackages (the package index and the lookup of the detail route),    *)
(* SpecPagination (offset parsing and the pagination controls),            *)
(* SpecDependencies (buildResourceDependencies) and SpecFetch (the         *)
(* callbacks of one downloadFile call).  SpecOverlap is the lifecycle of   *)
(* a running server with MaxOverlap calls of updateXigDatabase in flight.  *)
(***************************************************************************)
EXTENDS Integers, Sequences, FiniteSets, TLC

\* ------------------------------------------------------------------ bounds
\* number of calls of updateXigDatabase (cron, POST /update, start-up timer)
\* after module load; nothing in the code keeps them from all being in
\* progress at once
MaxRefresh == 2
\* number of calls of updateXigDatabase that can be in progress at once
MaxOverlap == 3

\* ---------------------------------------------------------------- constants
\* `let xigDb = null`
NullDb == 0
\* the process that runs initializeXigModule at module load
Boot == 0
\* token of the dataset that is on disk when the process starts; the n-th
\* call of updateXigDatabase downloads the dataset with token DiskDs + n
DiskDs == 1

\* the calls of updateXigDatabase that are in progress; a call that has
\* returned frees its slot
Slots == 1..MaxOverlap
Procs == 0..MaxOverlap
\* the connection objects that are referenced at one time
ConnIds == 1..(MaxOverlap + 1)
\* the snapshot objects that are referenced at one time
SnapIds == 0..(MaxOverlap + 2)

\* a path with no file
NoFile == [ds |-> 0, kind |-> "none"]
\* the kind of a file is "partial" (mid-download), "notdb" (not a database),
\* "emptydb" (a database without tables) or "db" (a well-formed dataset)

\* the awaited lookup queries of loadConfigCache, in program order
CacheQueries ==
  << "metadata", "realms", "authorities", "packages", "tableCheck",
     "profileResources", "profileTypes", "resourceTypes",
     "extensionContexts", "extensionTypes", "txSources" >>

\* the tables assigned after the result of a query arrived
QueryTables(q) ==
  IF q = "packages" THEN {"packages", "packagesById"}
  ELSE IF q = "tableCheck" THEN {}
  ELSE {q}

\* the tables set to empty sets when the dataset has no Resources table
ResourceTables == {"profileResources", "profileTypes", "resourceTypes"}

FixedTablesWithoutTypes == {"versions"}

\* the fixed dictionaries added after the last query
FixedTables == {"versions", "types"}

AllTables ==
  {"metadata", "realms", "authorities", "packages", "packagesById",
   "profileResources", "profileTypes", "resourceTypes",
   "extensionContexts", "extensionTypes", "txSources", "versions", "types"}

\* `{ loaded: false, lastUpdated: ..., maps: {} }`; maps is modelled by
\* tabs, which gives for each table that has been assigned the dataset its
\* rows were read from (0: no query)
EmptyCache == [loaded |-> FALSE, tabs |-> [t \in {} |-> 0]]

VARIABLES
  xigDb,                \* the global connection reference (NullDb or a ConnIds)
  conns,                \* the sqlite3.Database objects
  canonFile,            \* the file at XIG_DB_PATH
  tempFile,             \* the file at XIG_DB_PATH + '.tmp'
  configCache,          \* the global snapshot reference (a SnapIds)
  snaps,                \* the snapshot objects
  cacheLoadInProgress,  \* the rebuild guard
  pc,                   \* where each process waits
  inCatch,              \* the call is inside the catch block of updateXigDatabase
  pending,              \* the connection the awaited operation was issued on
  newCache,             \* the snapshot object a rebuild fills
  qi,                   \* the index of the awaited lookup query
  cand,                 \* the dataset an updateXigDatabase call downloads
  pre,                  \* history: the datasets on disk and served when the call began
  triggers,             \* the number of updateXigDatabase calls so far
  ended,                \* how updateXigDatabase returned in the last callback
  caught,               \* the failure its catch block caught in the last callback
  cacheLog,             \* what loadConfigCache logged last in the last callback
  cronScheduled,        \* cron.schedule has run
  timerArmed,           \* the start-up setTimeout is pending
  req,                  \* the GET /resources request being handled
  qpc,                  \* how far the query has been taken
  queryParams,          \* the facet values of the query being compiled
  offset,               \* the offset of the next listing page
  filter,               \* what buildSqlFilter gave for queryParams
  resourceCount,        \* the result of the count query
  resourceRows,         \* the rows of the last listing page
  seen,                 \* history: the rows of all listing pages so far
  scan,                 \* the order in which the engine visits the rows
  stats,                \* the entries buildSummaryStats rendered
  packages,             \* the rows of the Packages table of the dataset
  packagesById,         \* configCache.maps.packagesById
  linked,               \* history: the package whose link was followed
  packagePid,           \* req.params.packagePid of the detail request
  packageObj,           \* what getPackageByPid gave the detail route
  offsetParam,          \* req.query.offset
  controls,             \* what buildPaginationControls rendered
  redirectCount,        \* the argument of the last attemptDownload call
  request,              \* what the request of that call is doing
  armed,                \* the earlier requests whose sockets idle until their timeout
  promise,              \* the promise downloadFile returned
  statusCode,           \* response.statusCode of the last response
  edges,                \* the rows of the DependencyList table of the dataset
  resourceKey,          \* the argument of buildResourceDependencies
  dependencies,         \* the result of its first query
  uses,                 \* the result of its second query
  html                  \* the parts of the html it has built

vars ==
  << xigDb, conns, canonFile, tempFile, configCache, snaps,
     cacheLoadInProgress, pc, inCatch, pending, newCache, qi, cand,
     pre, triggers, ended, caught, cacheLog, cronScheduled, timerArmed,
     req, qpc, queryParams, offset, filter, resourceCount, resourceRows,
     seen, scan, stats, packages, packagesById, linked, packagePid,
     packageObj, offsetParam, controls, redirectCount, request, armed,
     promise, statusCode, edges, resourceKey, dependencies, uses, html >>

dbVars == << xigDb, conns >>
fileVars == << canonFile, tempFile >>
cacheVars == << configCache, snaps, cacheLoadInProgress, newCache, qi >>
bootVars == << cronScheduled, timerArmed >>
callVars == << cand, pre, triggers >>
pkgVars == << packages, packagesById, linked, packagePid, packageObj >>
pageVars == << offsetParam, controls >>
fetchVars == << redirectCount, request, armed, promise, statusCode >>
depVars == << edges, resourceKey, dependencies, uses, html >>
auxVars == << pkgVars, pageVars, fetchVars, depVars >>
qryVars ==
  << qpc, queryParams, offset, filter, resourceCount, resourceRows, seen,
     scan, stats, auxVars >>

\* the awaited queries of a GET /resources request that has a version
\* filter, in program order: the resource count, the authority and realm
\* breakdowns of buildSummaryStats, the listing of buildResourceTable, and
\* the two counts of getDatabaseTableCounts (without a version filter
\* buildSummaryStats also awaits one count per version before these)
ReqSteps == << "count", "authorities", "realms", "list", "tableCounts" >>

\* a request: pc is "idle", the awaited step, or "sent"; auth and realm: the
\* request has that filter; total: resourceCount is not 0; pend: the
\* connection the awaited query was issued on; done: completedQueries of
\* getDatabaseTableCounts; conns and snaps are history: the connection
\* objects the request called and the snapshot objects it read so far;
\* made: the steps whose section of the page has been built - with rows,
\* with an error description, or with a line that there is nothing to
\* show; errs: the steps whose query failed
NoReq ==
  [pc |-> "idle", auth |-> FALSE, realm |-> FALSE, total |-> FALSE,
   pend |-> 0, done |-> 0, conns |-> {}, snaps |-> {}, made |-> {},
   errs |-> {}]

\* the steps that build a section of the page: the count paragraph, the two
\* breakdowns of the summary and the resource table
Sections == {"count", "authorities", "realms", "list"}

\* a connection object: st is "unused" (no such object), "opening", "open",
\* "failed" (the open callback got an error) or "closed"; ds and kind are
\* those of the file it was opened on; closeReq: close() has been called
UnusedConn == [st |-> "unused", ds |-> 0, kind |-> "none", closeReq |-> FALSE]
NewConn(f) == [st |-> "opening", ds |-> f.ds, kind |-> f.kind, closeReq |-> FALSE]

\* whether a Database object accepts an operation: yes while it is opening
\* (the operation is queued until the open callback) or open; no (the
\* callback gets an error at once) when it is closed or its open failed;
\* between close() and the close callback the library either runs the
\* operation ahead of the close or refuses it
Accepts(c) ==
  IF c.st \notin {"opening", "open"} THEN {FALSE}
  ELSE IF c.closeReq THEN BOOLEAN
  ELSE {TRUE}

\* the dataset that queries on connection db read: none when xigDb is null
\* or the object is not open, or is about to close
Served(db, cn) ==
  IF db # NullDb /\ cn[db].st = "open" /\ ~cn[db].closeReq
    THEN cn[db].ds ELSE 0

NoPre == [file |-> 0, served |-> 0]

\* ------------------------------------------------------ query parameters
\* a string is the sequence of its characters; a word of a fixed template
\* or of the dataset that is never taken apart is one element.  A value of
\* req.query is a string, or with a repeated parameter an array of strings
Str(s) == [k |-> "str", s |-> s]
Arr(s) == [k |-> "arr", s |-> s]

\* JavaScript truthiness of a query value: '' is falsy, an array is truthy
Truthy(v) == v.k = "arr" \/ v.s # << >>

\* `x && x !== ''`
Applied(v) == Truthy(v) /\ v # Str(<< >>)

\* `req.query.x || ''`
OrEmpty(v) == IF Truthy(v) THEN v ELSE Str(<< >>)

Facets == {"ver", "auth", "realm", "type", "rt", "text"}

\* the handler's queryParams when the request has no parameter
NoParams == [f \in Facets |-> Str(<< >>)]

\* what buildSqlFilter gives: err is TRUE when it threw, s is the text
NoFilter == [err |-> FALSE, s |-> << >>]

\* no detail request: the package index is not part of the model
NoPackages ==
  /\ packages = << >>
  /\ packagesById = << >>
  /\ linked = 0
  /\ packagePid = << >>
  /\ packageObj = 0

\* what buildPaginationControls gives: shown is FALSE for '' ; start, prev,
\* next: the link is there; from and to: the range in 'Rows from - to';
\* prevOffset and nextOffset: the offset parameter of the link
NoControls ==
  [shown |-> FALSE, start |-> FALSE, prev |-> FALSE, prevOffset |-> 0,
   from |-> 0, to |-> 0, next |-> FALSE, nextOffset |-> 0]

\* no pagination controls have been rendered
NoPagination == offsetParam = << >> /\ controls = NoControls

\* no downloadFile call is followed step by step
NoFetch ==
  /\ redirectCount = 0
  /\ request = "none"
  /\ armed = 0
  /\ promise = "none"
  /\ statusCode = 0

\* a query that has not been answered
NoRows == [st |-> "unset", rows |-> << >>]

\* buildResourceDependencies has not been called
NoDependencies ==
  /\ edges = {}
  /\ resourceKey = 0
  /\ dependencies = NoRows
  /\ uses = NoRows
  /\ html = << >>

NoAux == NoPackages /\ NoPagination /\ NoFetch /\ NoDependencies

\* no listing is being counted or paged
NoListing ==
  /\ qpc = "none"
  /\ queryParams = NoParams
  /\ offset = 0
  /\ filter = NoFilter
  /\ resourceCount = 0
  /\ resourceRows = << >>
  /\ seen = << >>
  /\ scan = "asc"
  /\ stats = << >>

\* no query is being compiled
NoQuery == NoAux /\ NoListing

\* ------------------------------------------------------------------ Init
\* the state when the first callback can run: initializeXigModule has run
\* up to `await initializeDatabase()`, or past it when there is no file
Init ==
  /\ \E exists \in BOOLEAN :
       /\ canonFile = IF exists THEN [ds |-> DiskDs, kind |-> "db"] ELSE NoFile
       /\ xigDb = IF exists THEN 1 ELSE NullDb
       /\ conns = [c \in ConnIds |->
                     IF exists /\ c = 1
                       THEN NewConn([ds |-> DiskDs, kind |-> "db"])
                       ELSE UnusedConn]
       /\ pc = [p \in Procs |-> IF p = Boot
                                  THEN (IF exists THEN "open" ELSE "completed")
                                  ELSE "idle"]
       /\ pending = [p \in Procs |-> IF p = Boot /\ exists THEN 1 ELSE 0]
       /\ cronScheduled = ~exists
       /\ timerArmed = ~exists
  /\ tempFile = NoFile
  /\ configCache = 0
  /\ snaps = [s \in SnapIds |-> EmptyCache]
  /\ cacheLoadInProgress = FALSE
  /\ inCatch = [p \in Procs |-> FALSE]
  /\ newCache = [p \in Procs |-> 0]
  /\ qi = [p \in Procs |-> 0]
  /\ cand = [p \in Procs |-> 0]
  /\ pre = [p \in Procs |-> NoPre]
  /\ triggers = 0
  /\ ended = "none"
  /\ caught = "none"
  /\ cacheLog = "none"
  /\ req = NoReq
  /\ NoQuery

\* --------------------------------------------------------------- helpers
SetDb(db, cn) == xigDb' = db /\ conns' = cn

\* the callback does not enter loadConfigCache
NoCacheLoad == UNCHANGED cacheVars /\ cacheLog' = "none"

SetFiles(canon, temp) == canonFile' = canon /\ tempFile' = temp

SetProc(p, state, pend) ==
  /\ pc' = [pc EXCEPT ![p] = state]
  /\ pending' = [pending EXCEPT ![p] = pend]

\* the lookup queries that connection c accepted and has not answered;
\* close() completes only after these
PendingOn(c) ==
  {q \in Procs : pc[q] = "rebuild" /\ pending[q] = c}

\* a connection object that nothing references any more is garbage
Referenced(cn, db, c) ==
  \/ db = c
  \/ \E q \in Procs : pending[q] = c
  \/ c \in req.conns
  \/ cn[c].st \in {"opening", "open"}

\* the object `new sqlite3.Database(...)` creates
FreshConn(cn, db) ==
  CHOOSE c \in ConnIds :
    /\ ~Referenced(cn, db, c)
    /\ \A d \in ConnIds : ~Referenced(cn, db, d) => c <= d

\* --------------------------------------------- updateXigDatabase returns
\* the promise of updateXigDatabase settles and the slot is free again:
\* "completed" after 'update completed successfully', "failed" when the
\* catch block ran to its end, "rejected" when an error left the function
Settles(p, how) ==
  /\ SetProc(p, IF p = Boot THEN how ELSE "idle", 0)
  /\ inCatch' = [inCatch EXCEPT ![p] = FALSE]
  /\ cand' = [cand EXCEPT ![p] = 0]
  /\ pre' = [pre EXCEPT ![p] = NoPre]
  /\ ended' = IF p = Boot THEN "none" ELSE how
  /\ UNCHANGED triggers

Continues(p, state, pend, catchFlag) ==
  /\ SetProc(p, state, pend)
  /\ inCatch' = [inCatch EXCEPT ![p] = catchFlag]
  /\ ended' = "none"
  /\ UNCHANGED callVars

\* initializeDatabase resolved: updateXigDatabase logs 'completed', or its
\* catch block ends
Resolves(p) == Settles(p, IF inCatch[p] THEN "failed" ELSE "completed")

\* after `await initializeDatabase()` initializeXigModule arms the timer if
\* the dataset file is missing, and schedules the cron job
BootContinues(p, finished) ==
  IF p = Boot /\ finished
    THEN cronScheduled' = TRUE /\ timerArmed' = (canonFile = NoFile)
    ELSE UNCHANGED bootVars

\* -------------------------------------------------- initializeDatabase
\* the synchronous part: no file: resolve; else `xigDb = new Database(...)`
initializeDatabase(p, db, cn, canon, catchFlag) ==
  IF canon = NoFile
    THEN /\ SetDb(db, cn)
         /\ Settles(p, IF catchFlag THEN "failed" ELSE "completed")
    ELSE /\ SetDb(FreshConn(cn, db),
                  [cn EXCEPT ![FreshConn(cn, db)] = NewConn(canon)])
         /\ Continues(p, "open", FreshConn(cn, db), catchFlag)

\* ------------------------------------ the catch block of updateXigDatabase
\* `if (!xigDb) await initializeDatabase()`
CatchReinit(p, db, cn, canon) ==
  IF db = NullDb
    THEN initializeDatabase(p, db, cn, canon, TRUE)
    ELSE SetDb(db, cn) /\ Settles(p, "failed")

\* fs.unlinkSync(tempPath) can throw; the throw leaves updateXigDatabase
CatchBlock(p, db, cn, canon, temp, error) ==
  /\ caught' = error
  /\ canonFile' = canon
  /\ IF temp # NoFile
       THEN \E unlinkOk \in BOOLEAN :
              IF unlinkOk
                THEN tempFile' = NoFile /\ CatchReinit(p, db, cn, canon)
                ELSE /\ tempFile' = temp
                     /\ SetDb(db, cn)
                     /\ Settles(p, "rejected")
       ELSE tempFile' = temp /\ CatchReinit(p, db, cn, canon)

\* ----------------------------------------------------------- triggers
\* cron.schedule callback, POST /update, the start-up setTimeout
TriggerEnabled(k) ==
  \/ k = "post"
  \/ k = "cron" /\ cronScheduled
  \/ k = "timer" /\ timerArmed

\* the calls of updateXigDatabase that have not returned
Running == {q \in Slots : pc[q] # "idle"}

\* updateXigDatabase is entered and runs to `await downloadFile(...)`
Trigger(p, k) ==
  /\ pc[p] = "idle"
  /\ \A q \in Slots : q < p => pc[q] # "idle"
  /\ triggers < MaxRefresh
  /\ TriggerEnabled(k)
  /\ pc' = [pc EXCEPT ![p] = "dl"]
  /\ triggers' = triggers + 1
  /\ cand' = [cand EXCEPT ![p] = DiskDs + triggers + 1]
  /\ pre' = [pre EXCEPT ![p] = [file |-> canonFile.ds, served |-> Served(xigDb, conns)]]
  /\ timerArmed' = IF k = "timer" THEN FALSE ELSE timerArmed
  /\ ended' = "none" /\ caught' = "none" /\ NoCacheLoad
  /\ UNCHANGED << dbVars, fileVars, inCatch, pending, cronScheduled, req, qryVars >>

\* ---------------------------------------------------------- downloadFile
\* status 200: fs.createWriteStream(destination) creates or truncates the
\* temporary file
DownloadResponse(p) ==
  /\ pc[p] = "dl"
  /\ pc' = [pc EXCEPT ![p] = "dlStream"]
  /\ tempFile' = [ds |-> cand[p], kind |-> "partial"]
  /\ ended' = "none" /\ caught' = "none" /\ NoCacheLoad
  /\ UNCHANGED << dbVars, canonFile, inCatch, pending, callVars, bootVars,
                  req, qryVars >>

\* reject: status other than 200, request error, timeout, too many
\* redirects; a write-stream error also unlinks the partial file
DownloadFail(p) ==
  /\ pc[p] \in {"dl", "dlStream"}
  /\ \E streamError \in BOOLEAN :
       /\ streamError => pc[p] = "dlStream"
       /\ CatchBlock(p, xigDb, conns, canonFile,
                     IF streamError THEN NoFile ELSE tempFile, "download")
  /\ NoCacheLoad /\ UNCHANGED << bootVars, req, qryVars >>

\* what a file written by this download holds once the stream finished
Written(f, p, k) ==
  IF f.ds = cand[p] /\ f.kind = "partial"
    THEN [ds |-> cand[p], kind |-> k]
    ELSE f

\* 'finish': resolve; updateXigDatabase goes on to validateDatabaseFile,
\* which rejects at once when the file does not exist
DownloadFinish(p) ==
  /\ pc[p] = "dlStream"
  /\ \E k \in {"notdb", "emptydb", "db"} :
       LET temp == Written(tempFile, p, k)
           canon == Written(canonFile, p, k)
       IN IF temp = NoFile
            THEN CatchBlock(p, xigDb, conns, canon, temp, "validate")
            ELSE /\ caught' = "none"
                 /\ SetFiles(canon, temp)
                 /\ SetDb(xigDb, conns)
                 /\ Continues(p, "validate", 0, FALSE)
  /\ NoCacheLoad /\ UNCHANGED << bootVars, req, qryVars >>

\* -------------------------------------------------- validateDatabaseFile
\* the outcomes of opening the file read-only and running
\* "SELECT name FROM sqlite_master WHERE type='table' LIMIT 1": resolve
\* unless the open or the query reports an error; the row is not inspected.
\* f is the file at the temporary path when the query calls back: a file
\* another call is writing, or has moved away since the open, can have
\* passed or failed
validateDatabaseFile(f) ==
  CASE f.kind = "notdb" -> {FALSE}
    [] f.kind \in {"none", "partial"} -> BOOLEAN
    [] OTHER -> {TRUE}

\* ------------------------------------- updateXigDatabase, lines 1579-1584
\* unlinkSync(XIG_DB_PATH), renameSync(tempPath, XIG_DB_PATH) and
\* initializeDatabase(), run while xigDb is null
SwapFile(p, cn) ==
  \E unlinkOk, renameOk \in BOOLEAN :
    IF canonFile # NoFile /\ ~unlinkOk
      THEN CatchBlock(p, NullDb, cn, canonFile, tempFile, "unlink")
    ELSE IF tempFile = NoFile \/ ~renameOk
      THEN CatchBlock(p, NullDb, cn, NoFile, tempFile, "rename")
    ELSE /\ caught' = "none"
         /\ SetFiles(tempFile, NoFile)
         /\ initializeDatabase(p, NullDb, cn, tempFile, FALSE)

\* the callback of the validation query, and lines 1567-1570
ValidateDone(p) ==
  /\ pc[p] = "validate"
  /\ \E ok \in validateDatabaseFile(tempFile) :
       IF ~ok
         THEN CatchBlock(p, xigDb, conns, canonFile, tempFile, "validate")
       ELSE IF xigDb # NullDb
         THEN /\ caught' = "none"
              /\ SetDb(xigDb, [conns EXCEPT ![xigDb].closeReq = TRUE])
              /\ Continues(p, "closing", xigDb, FALSE)
              /\ UNCHANGED fileVars
       ELSE SwapFile(p, conns)
  /\ NoCacheLoad /\ UNCHANGED << bootVars, req, qryVars >>

\* the connection object after its close callback
Closed(c) == IF c.st = "open" THEN [UnusedConn EXCEPT !.st = "closed"] ELSE c

\* the callback of xigDb.close(): `xigDb = null`, then the file swap
CloseCb(p) ==
  /\ pc[p] = "closing"
  /\ conns[pending[p]].st # "opening"
  /\ PendingOn(pending[p]) = {}
  /\ req.pend # pending[p]
  /\ SwapFile(p, [conns EXCEPT ![pending[p]] = Closed(@)])
  /\ NoCacheLoad /\ UNCHANGED << bootVars, req, qryVars >>

\* ------------------------------------------------------- loadConfigCache
\* a snapshot object that neither configCache nor a rebuild references (nor
\* the history of the request)
Unreferenced(n) ==
  /\ n # configCache
  /\ n \notin req.snaps
  /\ \A q \in Procs : pc[q] = "rebuild" => newCache[q] # n

NewCacheInPlace == configCache

\* `const newCache = {...}` creates an object nothing else references
NewCacheRef ==
  CHOOSE n \in SnapIds :
    /\ Unreferenced(n)
    /\ \A m \in SnapIds : Unreferenced(m) => n <= m

RebuildSkippedWithoutGuard == xigDb = NullDb

\* the two early returns: a rebuild is in progress, or there is no connection
RebuildSkipped == cacheLoadInProgress \/ xigDb = NullDb

\* `xigDb.all(sql, params, cb)` of executeQuery: the call throws inside the
\* promise executor when xigDb is null, which rejects the promise
CanIssue == xigDb # NullDb

\* newCache goes out of scope: an object that configCache does not
\* reference is garbage, and the model forgets its contents
Dropped(n) ==
  IF n = configCache THEN snaps ELSE [snaps EXCEPT ![n] = EmptyCache]

RebuildFailsPublishing(p, n, first) ==
  /\ cacheLoadInProgress' = FALSE
  /\ cacheLog' = IF first THEN "loadFailed" ELSE "loadFailedPartway"
  /\ snaps' = snaps
  /\ configCache' = n
  /\ newCache' = [newCache EXCEPT ![p] = 0]
  /\ qi' = [qi EXCEPT ![p] = 0]
  /\ Resolves(p)
  /\ BootContinues(p, TRUE)

RebuildFailsHoldingGuard(p, n, first) ==
  /\ UNCHANGED cacheLoadInProgress
  /\ cacheLog' = IF first THEN "loadFailed" ELSE "loadFailedPartway"
  /\ snaps' = Dropped(n)
  /\ newCache' = [newCache EXCEPT ![p] = 0]
  /\ qi' = [qi EXCEPT ![p] = 0]
  /\ UNCHANGED configCache
  /\ Resolves(p)
  /\ BootContinues(p, TRUE)

\* the catch and finally blocks: log, release the guard; the caller
\* (initializeDatabase) resolves.  n is the object the rebuild was filling,
\* first: the failure is that of the first query
RebuildFails(p, n, first) ==
  /\ cacheLoadInProgress' = FALSE
  /\ cacheLog' = IF first THEN "loadFailed" ELSE "loadFailedPartway"
  /\ snaps' = Dropped(n)
  /\ newCache' = [newCache EXCEPT ![p] = 0]
  /\ qi' = [qi EXCEPT ![p] = 0]
  /\ UNCHANGED configCache
  /\ Resolves(p)
  /\ BootContinues(p, TRUE)

loadConfigCacheFromOpened(p) ==
  IF cacheLoadInProgress
    THEN /\ cacheLog' = "skipped"
         /\ UNCHANGED << configCache, snaps, cacheLoadInProgress, newCache, qi >>
         /\ Resolves(p)
         /\ BootContinues(p, TRUE)
    ELSE \E accepted \in Accepts(conns'[pending[p]]) :
           IF accepted
             THEN /\ cacheLoadInProgress' = TRUE
                  /\ newCache' = [newCache EXCEPT ![p] = NewCacheRef]
                  /\ snaps' = [snaps EXCEPT ![NewCacheRef] = EmptyCache]
                  /\ qi' = [qi EXCEPT ![p] = 1]
                  /\ cacheLog' = "started"
                  /\ UNCHANGED configCache
                  /\ Continues(p, "rebuild", pending[p], inCatch[p])
                  /\ BootContinues(p, FALSE)
             ELSE RebuildFails(p, NewCacheRef, TRUE)

\* the guard and the start of the rebuild, up to the first awaited query
loadConfigCache(p) ==
  IF RebuildSkipped
    THEN /\ cacheLog' = IF cacheLoadInProgress THEN "skipped" ELSE "noDb"
         /\ UNCHANGED << configCache, snaps, cacheLoadInProgress, newCache, qi >>
         /\ Resolves(p)
         /\ BootContinues(p, TRUE)
    ELSE \E accepted \in Accepts(conns'[xigDb]) :
           IF accepted
             THEN /\ cacheLoadInProgress' = TRUE
                  /\ newCache' = [newCache EXCEPT ![p] = NewCacheRef]
                  /\ snaps' = [snaps EXCEPT ![NewCacheRef] = EmptyCache]
                  /\ qi' = [qi EXCEPT ![p] = 1]
                  /\ cacheLog' = "started"
                  /\ UNCHANGED configCache
                  /\ Continues(p, "rebuild", xigDb, inCatch[p])
                  /\ BootContinues(p, FALSE)
             ELSE RebuildFails(p, NewCacheRef, TRUE)

\* the callback of `new sqlite3.Database(XIG_DB_PATH, OPEN_READONLY, cb)`
OpenCb(p) ==
  /\ pc[p] = "open"
  /\ conns[pending[p]].st = "opening"
  /\ UNCHANGED << req, qryVars >>
  /\ \E ok \in BOOLEAN :
       IF ok
         THEN /\ caught' = "none"
              /\ SetDb(xigDb, [conns EXCEPT ![pending[p]].st = "open"])
              /\ loadConfigCache(p)
              /\ UNCHANGED fileVars
       ELSE IF p = Boot \/ inCatch[p]
         THEN /\ SetDb(xigDb, [conns EXCEPT ![pending[p]].st = "failed"])
              /\ Settles(p, "rejected")
              /\ caught' = "none" /\ NoCacheLoad
              /\ UNCHANGED << fileVars, bootVars >>
       ELSE /\ CatchBlock(p, xigDb, [conns EXCEPT ![pending[p]].st = "failed"],
                          canonFile, tempFile, "open")
            /\ NoCacheLoad /\ UNCHANGED bootVars

\* the tables of newCache after the rows of query q arrived from dataset d
Filled(tabs, q, d) == tabs @@ [t \in QueryTables(q) |-> d]

\* the else branch of `resourcesTableExists.length > 0`
WithoutResources(tabs) == tabs @@ [t \in ResourceTables |-> 0]

\* the fixed dictionaries and `newCache.loaded = true`
Completed(tabs) ==
  [loaded |-> TRUE, tabs |-> tabs @@ [t \in FixedTables |-> 0]]

\* `configCache = newCache`: the object n, with contents c, becomes the
\* visible snapshot; the old object is no longer referenced
Published(n, c) ==
  [s \in SnapIds |-> IF s = n THEN c
                     ELSE IF s = configCache THEN EmptyCache
                     ELSE snaps[s]]

\* the index of the query awaited after query i; a dataset without a
\* Resources table skips the three Resources queries
NextQuery(i, hasResources) ==
  IF CacheQueries[i] = "tableCheck" /\ ~hasResources THEN i + 4 ELSE i + 1

\* whether the rows of query q show a Resources table: only the table check
\* looks
TableCheckRows(q) == IF q = "tableCheck" THEN BOOLEAN ELSE {TRUE}

\* whether a 'cacheUpdated' listener throws: emit runs after the last query
ListenerOutcomes(i) == IF i = Len(CacheQueries) THEN BOOLEAN ELSE {FALSE}

\* a query that was accepted succeeds on an open connection to a file that
\* holds tables
CanAnswer(c) == c.st = "open" /\ c.kind \in {"db", "partial"}

\* the callback of an awaited lookup query of loadConfigCache, and the code
\* up to the next awaited query or to the end of the function
QueryCb(p) ==
  /\ pc[p] = "rebuild"
  /\ conns[pending[p]].st # "opening"
  /\ caught' = "none"
  /\ UNCHANGED << dbVars, fileVars, req, qryVars >>
  /\ \E ok \in BOOLEAN,
        hasResources \in TableCheckRows(CacheQueries[qi[p]]),
        listenerThrows \in ListenerOutcomes(qi[p]) :
       LET c == conns[pending[p]]
           n == newCache[p]
           q == CacheQueries[qi[p]]
           got == Filled(snaps[n].tabs, q, c.ds)
           tabs == IF q = "tableCheck" /\ ~hasResources
                     THEN WithoutResources(got) ELSE got
           next == NextQuery(qi[p], hasResources)
       IN IF ~(ok /\ CanAnswer(c))
            THEN RebuildFails(p, n, qi[p] = 1)
          ELSE IF next > Len(CacheQueries)
            THEN \* ATOMIC REPLACEMENT, emit, finally
                 /\ snaps' = Published(n, Completed(tabs))
                 /\ configCache' = n
                 /\ cacheLoadInProgress' = FALSE
                 /\ cacheLog' = IF listenerThrows THEN "listenerFailed"
                                                  ELSE "updated"
                 /\ newCache' = [newCache EXCEPT ![p] = 0]
                 /\ qi' = [qi EXCEPT ![p] = 0]
                 /\ Resolves(p)
                 /\ BootContinues(p, TRUE)
          ELSE IF ~CanIssue
            THEN RebuildFails(p, n, FALSE)
          ELSE \E accepted \in Accepts(conns[xigDb]) :
                 IF accepted
                   THEN /\ snaps' = [snaps EXCEPT ![n].tabs = tabs]
                        /\ qi' = [qi EXCEPT ![p] = next]
                        /\ cacheLog' = "none"
                        /\ UNCHANGED << configCache, cacheLoadInProgress,
                                        newCache >>
                        /\ Continues(p, "rebuild", xigDb, inCatch[p])
                        /\ BootContinues(p, FALSE)
                   ELSE RebuildFails(p, n, FALSE)

\* ------------------------------------------------------- GET /resources
\* whether the handler, arrived at step i, calls a method of xigDb: every
\* step first tests `xigDb`; the breakdowns are skipped for a facet that is
\* filtered on, the listing when resourceCount is 0
Issued(r, i) ==
  /\ xigDb # NullDb
  /\ CASE ReqSteps[i] = "authorities" -> ~r.auth
       [] ReqSteps[i] = "realms" -> ~r.realm
       [] ReqSteps[i] = "list" -> r.total
       [] OTHER -> TRUE

\* the step the handler goes on with after the query of step i failed: the
\* catch of buildSummaryStats ends both breakdowns
AfterError(i) == IF ReqSteps[i] = "authorities" THEN i + 2 ELSE i + 1

\* the section of step i is built
Made(r, i) == [r EXCEPT !.made = @ \cup ({ReqSteps[i]} \cap Sections)]

\* the catch block of step i puts the error message in the section; a
\* failed count leaves resourceCount at 0
Failed(r, i) ==
  [Made(r, i) EXCEPT !.total = IF ReqSteps[i] = "count" THEN FALSE ELSE @,
                     !.errs = @ \cup {ReqSteps[i]}]

\* step i calls no method of xigDb: without a connection the count stays
\* 0 and the summary is the line 'Database not available'; the resource
\* table is the line 'No resources to display'; a breakdown of a facet
\* that is filtered on is left out
Unissued(r, i) ==
  IF xigDb = NullDb \/ ReqSteps[i] = "list" THEN Made(r, i) ELSE r

\* the handler runs from step i to its next awaited query, or to res.send:
\* the requests it can be after that, r being the request before
RECURSIVE Run(_, _)
Run(r, i) ==
  IF i > Len(ReqSteps)
    THEN {[r EXCEPT !.pc = "sent", !.pend = 0, !.done = 0]}
  ELSE IF ~Issued(r, i)
    THEN Run(Unissued(r, i), i + 1)
  ELSE LET u == [r EXCEPT !.conns = @ \cup {xigDb}]
       IN UNION {IF accepted
                   THEN {[u EXCEPT !.pc = ReqSteps[i], !.pend = xigDb, !.done = 0]}
                   ELSE Run(Failed(u, i), AfterError(i))
                 : accepted \in Accepts(conns[xigDb])}

\* the request after the query of step i was answered, with rows or (not
\* ok) with an error
Answered(r, i, ok) == IF ok THEN Made(r, i) ELSE Failed(r, i)

\* a callback of the request changes nothing of the dataset lifecycle
ReqOnly ==
  /\ ended' = "none" /\ caught' = "none" /\ NoCacheLoad
  /\ UNCHANGED << dbVars, fileVars, pc, inCatch, pending, callVars, bootVars,
                  qryVars >>

\* the handler is entered: buildControlPanel reads the snapshot, then the
\* count query
ReqStart ==
  /\ req.pc \in {"idle", "sent"}
  /\ \E auth, realm \in BOOLEAN :
       req' \in Run([NoReq EXCEPT !.auth = auth, !.realm = realm,
                                  !.snaps = {configCache}], 1)
  /\ ReqOnly

\* the callback of the awaited query, and the handler up to the next one:
\* after the count buildAdditionalForm and buildSqlFilter read the snapshot,
\* after the listing getPackage reads it for each row
ReqCb ==
  /\ req.pc \notin {"idle", "sent"}
  /\ conns[req.pend].st # "opening"
  /\ \E ok \in {a \in BOOLEAN : a => CanAnswer(conns[req.pend])},
        rows \in BOOLEAN :
       CASE req.pc = "count" ->
              req' \in Run([Answered(req, 1, ok)
                              EXCEPT !.total = ok /\ rows,
                                     !.snaps = @ \cup {configCache}], 2)
         [] req.pc = "authorities" ->
              req' \in Run(Answered(req, 2, ok), IF ok THEN 3 ELSE AfterError(2))
         [] req.pc = "realms" ->
              req' \in Run(Answered(req, 3, ok), 4)
         [] req.pc = "list" ->
              req' \in Run([Answered(req, 4, ok)
                              EXCEPT !.snaps = IF ok /\ rows
                                                 THEN @ \cup {configCache}
                                                 ELSE @], 5)
         [] req.pc = "tableCounts" ->
              IF req.done = 0
                THEN req' = [req EXCEPT !.done = 1]
                ELSE req' \in Run(req, 6)
  /\ ReqOnly

\* ------------------------------------------------------------------ Next
Next ==
  \/ \E p \in Slots, k \in {"cron", "post", "timer"} : Trigger(p, k)
  \/ \E p \in Slots : DownloadResponse(p)
  \/ \E p \in Slots : DownloadFail(p)
  \/ \E p \in Slots : DownloadFinish(p)
  \/ \E p \in Slots : ValidateDone(p)
  \/ \E p \in Slots : CloseCb(p)
  \/ \E p \in Procs : OpenCb(p)
  \/ \E p \in Procs : QueryCb(p)

Spec == Init /\ [][Next]_vars

\* the tables of a snapshot built from dataset d
BuiltFrom(d) ==
  Completed([t \in AllTables \ FixedTables |-> d])

\* a state of Spec: the start-up rebuild has published, and every call of
\* updateXigDatabase but one has been made and has failed at the download
InitReq ==
  /\ canonFile = [ds |-> DiskDs, kind |-> "db"]
  /\ tempFile = NoFile
  /\ xigDb = 1
  /\ conns = [c \in ConnIds |->
                IF c = 1
                  THEN [NewConn(canonFile) EXCEPT !.st = "open"]
                  ELSE UnusedConn]
  /\ configCache = 1
  /\ snaps = [s \in SnapIds |-> IF s = 1 THEN BuiltFrom(DiskDs) ELSE EmptyCache]
  /\ cacheLoadInProgress = FALSE
  /\ pc = [p \in Procs |-> IF p = Boot THEN "completed" ELSE "idle"]
  /\ inCatch = [p \in Procs |-> FALSE]
  /\ pending = [p \in Procs |-> 0]
  /\ newCache = [p \in Procs |-> 0]
  /\ qi = [p \in Procs |-> 0]
  /\ cand = [p \in Procs |-> 0]
  /\ pre = [p \in Procs |-> NoPre]
  /\ triggers = MaxRefresh - 1
  /\ ended = "failed"
  /\ caught = "download"
  /\ cacheLog = "none"
  /\ cronScheduled = TRUE
  /\ timerArmed = FALSE
  /\ req = NoReq
  /\ NoQuery

\* the dataset lifecycle together with GET /resources requests
NextReq ==
  \/ Next
  \/ ReqStart
  \/ ReqCb

SpecReq == InitReq /\ [][NextReq]_vars

\* ------------------------------------------------------------ the dataset
\* the page size buildResourceTable passes to buildResourceListQuery
PageSize == 200

\* the datasets: the one on disk at start-up and the downloaded ones
Datasets == DiskDs..(DiskDs + MaxRefresh)

\* the number of rows of the Resources table of dataset d: a few rows in
\* the dataset on disk, then full pages, with and without a last short page
NRows(d) ==
  IF d = DiskDs THEN 12 ELSE (d - DiskDs) * PageSize + ((d - DiskDs + 1) % 2)

\* (ResourceType, Type, Kind) of the rows, by ResourceKey
Shapes ==
  << << <<"CodeSystem">>, << >>, << >> >>,
     << <<"StructureDefinition">>, <<"Patient">>, <<"resource">> >>,
     << <<"StructureDefinition">>, <<"Extension">>, <<"complex-type">> >>,
     << <<"StructureDefinition">>, <<"string">>, <<"primitive-type">> >>,
     << <<"StructureDefinition">>, <<"Model">>, <<"logical">> >>,
     << <<"ValueSet">>, << >>, << >> >>,
     << <<"ConceptMap">>, << >>, << >> >>,
     << <<"StructureDefinition">>, <<"Extension">>, <<"complex-type">> >> >>

\* the values of the Realm and of the Authority column, each in ascending
\* order (the order of ORDER BY Realm, ORDER BY Authority)
RealmCodes ==
  << << >>, <<"l", "o", "n", "g">>, <<"u", "k">>, <<"u", "s">>,
     <<"x", "l", "o", "n", "g">> >>

AuthorityCodes == << << >>, <<"hl7">>, <<"ihe">> >>

VersionNames == {"R2", "R2B", "R3", "R4", "R4B", "R5", "R6"}

VersionFlags == << {"R4"}, {"R4", "R5"}, {"R5"}, {"R2", "R3"}, {}, {"R4B"}, {"R6", "R2B"} >>

Descriptions == << <<"a">>, <<"b">> >>

\* the Categories rows of the row with ResourceKey k: extensions have a
\* context (Mode 2), value sets and concept maps a terminology source
\* (Mode 1); every fifth row has a Mode 1 row with the code of a context.
\* One context code has a quote character in it
Cats(k, sh) ==
  LET alt == k % 2 = 0
  IN
  IF k % 5 = 0
    THEN {[Mode |-> 1, Code |-> <<"Patient">>]}
  ELSE IF sh[2] = <<"Extension">>
    THEN {[Mode |-> 2, Code |-> IF alt THEN <<"Patient">> ELSE <<"x", "'">>]}
  ELSE IF sh[1] \in {<<"ValueSet">>, <<"ConceptMap">>}
    THEN {[Mode |-> 1, Code |-> IF alt THEN <<"sct">> ELSE <<"loinc">>]}
  ELSE {}

\* the row of Resources with ResourceKey k
Rec(k) ==
  LET sh == Shapes[(k % 8) + 1]
  IN [ResourceKey |-> k,
      ResourceType |-> sh[1], Type |-> sh[2], Kind |-> sh[3],
      Realm |-> RealmCodes[(k % 5) + 1],
      Authority |-> AuthorityCodes[(k % 3) + 1],
      Versions |-> VersionFlags[(k % 7) + 1],
      Description |-> Descriptions[((k \div 2) % 2) + 1],
      Cats |-> Cats(k, sh)]

\* the ResourceKeys of dataset d (0: no Resources table)
Keys(d) == IF d = 0 THEN {} ELSE 1..NRows(d)

\* the codes of the TxSource, Realms and Authorities tables
TxSourceCodes == {<<"sct">>, <<"loinc">>}

\* --------------------------------------------------- the snapshot tables
\* the tables of a snapshot that are Sets; the others are Maps
SetTables ==
  {"realms", "authorities", "profileResources", "profileTypes",
   "resourceTypes", "extensionContexts", "extensionTypes", "versions"}

\* the members of a Set table, or the keys of a Map table, of a snapshot
\* whose table t was read from dataset d (the lookup queries of
\* loadConfigCache; metadata and packages are not looked up by a filter)
TableRows(t, d) ==
  CASE t = "versions" -> {<<v>> : v \in VersionNames}
    [] t = "types" -> {<<"rp">>, <<"dp">>, <<"ext">>, <<"lm">>, <<"cs">>, <<"vs">>, <<"cm">>}
    [] t = "realms" ->
         {RealmCodes[i] : i \in {j \in DOMAIN RealmCodes :
                                   Len(RealmCodes[j]) \in 1..3}}
    [] t = "authorities" ->
         {AuthorityCodes[i] : i \in {j \in DOMAIN AuthorityCodes :
                                       AuthorityCodes[j] # << >>}}
    [] t = "profileResources" ->
         {Rec(k).Type : k \in {j \in Keys(d) :
            /\ Rec(j).ResourceType = <<"StructureDefinition">>
            /\ Rec(j).Kind = <<"resource">>
            /\ Rec(j).Type # << >>}}
    [] t = "profileTypes" ->
         {Rec(k).Type : k \in {j \in Keys(d) :
            /\ Rec(j).ResourceType = <<"StructureDefinition">>
            /\ Rec(j).Kind \in {<<"complex-type">>, <<"primitive-type">>}
            /\ Rec(j).Type # << >>}}
    [] t = "resourceTypes" -> {Rec(k).ResourceType : k \in Keys(d)}
    [] t = "extensionContexts" ->
         {c.Code : c \in {x \in UNION {Rec(k).Cats : k \in 1..NRows(d)} :
                            x.Mode = 2}}
    [] t = "extensionTypes" ->
         {c.Code : c \in {x \in UNION {Rec(k).Cats : k \in 1..NRows(d)} :
                            x.Mode = 3}}
    [] t = "txSources" -> TxSourceCodes
    [] OTHER -> {}

\* hasCachedValue with `instanceof Map` in place of `instanceof Set`
hasCachedKey(tableName, value) ==
  LET c == snaps[configCache]
  IN /\ c.loaded
     /\ tableName \in DOMAIN c.tabs
     /\ tableName \notin SetTables
     /\ value.k = "str"
     /\ value.s \in TableRows(tableName, c.tabs[tableName])

\* hasCachedValue that does not look at the snapshot
hasAnyValue(tableName, value) == value.k = "str"

\* hasCachedValue: false when the snapshot is not loaded or has no such
\* table, or the table is not a Set; an array is never a member of a Set
hasCachedValue(tableName, value) ==
  LET c == snaps[configCache]
  IN /\ c.loaded
     /\ tableName \in DOMAIN c.tabs
     /\ tableName \in SetTables
     /\ value.k = "str"
     /\ value.s \in TableRows(tableName, c.tabs[tableName])

hasTerminologySource(sourceCode) == hasCachedValue("txSources", sourceCode)

\* ----------------------------------------------------- buildSqlFilter
\* a piece of query text under construction: err is TRUE when building it
\* threw
Text(s) == [err |-> FALSE, s |-> s]
Thrown == [err |-> TRUE, s |-> << >>]
Cat(a, b) == [err |-> a.err \/ b.err, s |-> a.s \o b.s]

\* str.replace(/'/g, "''")
RECURSIVE Doubled(_)
Doubled(s) ==
  IF s = << >> THEN << >>
  ELSE (IF Head(s) = "'" THEN <<"'", "'">> ELSE <<Head(s)>>) \o Doubled(Tail(s))

\* sqlEscapeString that returns the string as it is
sqlEscapeStringRaw(str) ==
  IF ~Truthy(str) THEN Text(<< >>)
  ELSE IF str.k # "str" THEN Thrown
  ELSE Text(str.s)

\* sqlEscapeString: an array has no replace method, the call throws
sqlEscapeString(str) ==
  IF ~Truthy(str) THEN Text(<< >>)
  ELSE IF str.k # "str" THEN Thrown
  ELSE Text(Doubled(str.s))

\* '${sqlEscapeString(v)}'
Quoted(v) == Cat(Cat(Text(<<"'">>), sqlEscapeString(v)), Text(<<"'">>))

\* a literal of the template
Lit(w) == <<"'", w, "'">>

\* InCategories with Mode = 1 whatever the mode
InCategoriesOfSources(mode) ==
  " ResourceKey in (Select ResourceKey from Categories where Mode = 1 and Code = "

InCategories(mode) ==
  IF mode = 2
    THEN " ResourceKey in (Select ResourceKey from Categories where Mode = 2 and Code = "
    ELSE " ResourceKey in (Select ResourceKey from Categories where Mode = 1 and Code = "

\* the clause of the refinement value, with the table it is validated in
RtClause(rt, known, head) ==
  IF Applied(rt) /\ known
    THEN Cat(Cat(Text(<<" and", head>>), Quoted(rt)),
             Text(IF head \in {InCategories(1), InCategories(2)}
                    THEN <<")">> ELSE << >>))
    ELSE Text(<< >>)

ResourceFts == "ResourceKey in (select ResourceKey from ResourceFTS where Description match "
CodeSystemFts == "or ResourceKey in (select ResourceKey from CodeSystemFTS where Display match "

buildSqlFilter(q) ==
  LET realmPart ==
        IF Applied(q.realm)
          THEN Cat(Text(<<" and", " realm = ">>), Quoted(q.realm))
          ELSE Text(<< >>)
      authPart ==
        IF Applied(q.auth)
          THEN Cat(Text(<<" and", " authority = ">>), Quoted(q.auth))
          ELSE Text(<< >>)
      verPart ==
        IF q.ver.k = "str" /\ q.ver.s \in {<<v>> : v \in VersionNames}
          THEN Text(<<" and", " ">> \o q.ver.s \o <<" = 1">>)
          ELSE Text(<< >>)
      sd == <<" and", " ResourceType = ">> \o Lit("StructureDefinition")
      typePart ==
        CASE q.type = Str(<<"cs">>) ->
               Text(<<" and", " ResourceType = ">> \o Lit("CodeSystem"))
          [] q.type = Str(<<"rp">>) ->
               Cat(Text(sd \o <<" and", " kind = ">> \o Lit("resource")),
                   RtClause(q.rt, hasCachedValue("profileResources", q.rt),
                            " Type = "))
          [] q.type = Str(<<"dp">>) ->
               Cat(Text(sd \o <<" and", " (", "kind = ">> \o Lit("complex-type")
                           \o <<" or ", "kind = ">> \o Lit("primitive-type")
                           \o <<")">>),
                   RtClause(q.rt, hasCachedValue("profileTypes", q.rt),
                            " Type = "))
          [] q.type = Str(<<"lm">>) ->
               Text(sd \o <<" and", " kind = ">> \o Lit("logical"))
          [] q.type = Str(<<"ext">>) ->
               Cat(Text(sd \o <<" and", " (", "Type = ">> \o Lit("Extension")
                           \o <<")">>),
                   RtClause(q.rt, hasCachedValue("extensionContexts", q.rt),
                            InCategories(2)))
          [] q.type = Str(<<"vs">>) ->
               Cat(Text(<<" and", " ResourceType = ">> \o Lit("ValueSet")),
                   RtClause(q.rt, hasTerminologySource(q.rt), InCategories(1)))
          [] q.type = Str(<<"cm">>) ->
               Cat(Text(<<" and", " ResourceType = ">> \o Lit("ConceptMap")),
                   RtClause(q.rt, hasTerminologySource(q.rt), InCategories(1)))
          [] OTHER ->
               RtClause(q.rt, hasCachedValue("resourceTypes", q.rt),
                        " ResourceType = ")
      fts == Cat(Cat(Cat(Text(<<ResourceFts>>), Quoted(q.text)),
                     Text(<<" or Narrative match ">>)), Quoted(q.text))
      textPart ==
        IF ~Applied(q.text) THEN Text(<< >>)
        ELSE IF q.type = Str(<<"cs">>)
          THEN Cat(Cat(Cat(Cat(Cat(Cat(Text(<<" and", " (">>), fts),
                   Text(<<") ", CodeSystemFts>>)), Quoted(q.text)),
                   Text(<<" or Definition match ">>)), Quoted(q.text)),
                   Text(<<"))">>))
          ELSE Cat(Cat(Text(<<" and", " ">>), fts), Text(<<")">>))
      all == Cat(Cat(Cat(Cat(realmPart, authPart), verPart), typePart), textPart)
  IN IF all.err THEN Thrown
     ELSE IF all.s = << >> THEN Text(<< >>)
     ELSE Text(<<"WHERE ">> \o Tail(all.s))

\* ------------------------------------------------------ the query engine
\* the text as the engine reads it: a quote opens a literal, inside a
\* literal two quotes are one quote character and a single quote closes it.
\* The items are [lit |-> FALSE, t |-> element] for text outside literals,
\* [lit |-> TRUE, t |-> the value] for a literal; an unclosed literal gives
\* the item Unclosed
Unclosed == [lit |-> FALSE, t |-> << "unclosed" >>]

RECURSIVE Lex(_, _, _, _)
Lex(s, i, open, acc) ==
  IF i > Len(s)
    THEN (IF open THEN << Unclosed >> ELSE << >>)
  ELSE IF ~open
    THEN (IF s[i] = "'"
            THEN Lex(s, i + 1, TRUE, << >>)
            ELSE << [lit |-> FALSE, t |-> << s[i] >>] >> \o Lex(s, i + 1, FALSE, << >>))
  ELSE IF s[i] # "'"
    THEN Lex(s, i + 1, TRUE, Append(acc, s[i]))
  ELSE IF i < Len(s) /\ s[i + 1] = "'"
    THEN Lex(s, i + 2, TRUE, Append(acc, "'"))
  ELSE << [lit |-> TRUE, t |-> acc] >> \o Lex(s, i + 1, FALSE, << >>)

Items(s) == Lex(s, 1, FALSE, << >>)

\* the conjuncts of a WHERE clause: the items between the top-level ANDs
RECURSIVE Conjuncts(_, _, _)
Conjuncts(items, i, cur) ==
  IF i > Len(items) THEN << cur >>
  ELSE IF ~items[i].lit /\ items[i].t \in {<<" and">>, <<" AND">>}
    THEN << cur >> \o Conjuncts(items, i + 1, << >>)
  ELSE Conjuncts(items, i + 1, Append(cur, items[i]))

\* the form of a conjunct: its text with each literal replaced by a mark
Form(c) == [i \in DOMAIN c |-> IF c[i].lit THEN "?" ELSE c[i].t[1]]

\* the literals of a conjunct, in order
Args(c) ==
  LET lits == SelectSeq(c, LAMBDA x : x.lit)
  IN [i \in DOMAIN lits |-> lits[i].t]

\* the Mode that a subquery on Categories asks for (0: not such a subquery)
SubqueryMode(t) ==
  CASE t = " ResourceKey in (Select ResourceKey from Categories where Mode = 1 and Code = " -> 1
    [] t = " ResourceKey in (Select ResourceKey from Categories where Mode = 2 and Code = " -> 2
    [] OTHER -> 0

CategoryForm(f) ==
  Len(f) = 3 /\ SubqueryMode(f[1]) # 0 /\ f[2] = "?" /\ f[3] = ")"

\* the forms of conjunct the engine is given a meaning for below
\* a version column compared with 1; a space before it means nothing
VersionColumn(f) ==
  IF Len(f) = 3 /\ f[1] = " " /\ f[3] = " = 1" THEN f[2]
  ELSE IF Len(f) = 2 /\ f[2] = " = 1" THEN f[1]
  ELSE "none"

VersionForm(f) == VersionColumn(f) \in VersionNames

Accepted(c) ==
  \/ VersionForm(Form(c))
  \/ CategoryForm(Form(c))
  \/ Form(c) \in
       { <<" realm = ", "?">>, <<" authority = ", "?">>,
         <<" ResourceType = ", "?">>, <<" kind = ", "?">>, <<" Type = ", "?">>,
         <<" (", "kind = ", "?", " or ", "kind = ", "?", ")">>,
         <<" (", "Type = ", "?", ")">>,
         <<" ", ResourceFts, "?", " or Narrative match ", "?", ")">>,
         <<" (", ResourceFts, "?", " or Narrative match ", "?", ") ",
           CodeSystemFts, "?", " or Definition match ", "?", "))">> }

\* whether row r satisfies an accepted conjunct
Sat(c, r) ==
  LET f == Form(c)
      a == Args(c)
  IN CASE f = <<" realm = ", "?">> -> r.Realm = a[1]
       [] f = <<" authority = ", "?">> -> r.Authority = a[1]
       [] VersionForm(f) -> VersionColumn(f) \in r.Versions
       [] f = <<" ResourceType = ", "?">> -> r.ResourceType = a[1]
       [] f = <<" kind = ", "?">> -> r.Kind = a[1]
       [] f = <<" Type = ", "?">> -> r.Type = a[1]
       [] f = <<" (", "kind = ", "?", " or ", "kind = ", "?", ")">> ->
            r.Kind \in {a[1], a[2]}
       [] f = <<" (", "Type = ", "?", ")">> -> r.Type = a[1]
       [] CategoryForm(f) ->
            [Mode |-> SubqueryMode(f[1]), Code |-> a[1]] \in r.Cats
       [] f = <<" ", ResourceFts, "?", " or Narrative match ", "?", ")">> ->
            r.Description \in {a[1], a[2]}
       [] f = <<" (", ResourceFts, "?", " or Narrative match ", "?", ") ",
                CodeSystemFts, "?", " or Definition match ", "?", "))">> ->
            r.Description \in {a[1], a[2], a[3], a[4]}
       [] OTHER -> FALSE

\* a WHERE clause as the engine has compiled it: ok is FALSE when the text
\* is not a query the engine accepts
Compiled(where) ==
  IF where = << >> THEN [ok |-> TRUE, cs |-> << >>]
  ELSE LET items == Items(where)
           cs == Conjuncts(items, 2, << >>)
       IN [ok |-> /\ items[1] = [lit |-> FALSE, t |-> <<"WHERE ">>]
                  /\ \A i \in DOMAIN cs : Accepted(cs[i]),
           cs |-> cs]

\* the rows of dataset d that satisfy a compiled WHERE clause
Matching(cw, d) ==
  {k \in Keys(d) : \A i \in DOMAIN cw.cs : Sat(cw.cs[i], Rec(k))}

\* ------------------------------------------------- overlapping refreshes
\* the server is up on the dataset on disk, its snapshot is published, and
\* MaxOverlap calls of updateXigDatabase have been entered one after the
\* other (cron and POST /update) and await their downloads
InitOverlap ==
  /\ canonFile = [ds |-> DiskDs, kind |-> "db"]
  /\ tempFile = NoFile
  /\ xigDb = 1
  /\ conns = [c \in ConnIds |->
                IF c = 1
                  THEN [NewConn(canonFile) EXCEPT !.st = "open"]
                  ELSE UnusedConn]
  /\ configCache = 1
  /\ snaps = [s \in SnapIds |->
                IF s = 1 THEN BuiltFrom(DiskDs) ELSE EmptyCache]
  /\ cacheLoadInProgress = FALSE
  /\ pc = [p \in Procs |-> IF p = Boot THEN "completed" ELSE "dl"]
  /\ inCatch = [p \in Procs |-> FALSE]
  /\ pending = [p \in Procs |-> 0]
  /\ newCache = [p \in Procs |-> 0]
  /\ qi = [p \in Procs |-> 0]
  /\ cand = [p \in Procs |-> IF p = Boot THEN 0 ELSE DiskDs + p]
  /\ pre = [p \in Procs |->
              IF p = Boot THEN NoPre ELSE [file |-> DiskDs, served |-> DiskDs]]
  /\ triggers = MaxOverlap
  /\ ended = "none"
  /\ caught = "none"
  /\ cacheLog = "none"
  /\ cronScheduled = TRUE
  /\ timerArmed = FALSE
  /\ req = NoReq
  /\ NoQuery

NextOverlap ==
  \/ \E p \in Slots : DownloadResponse(p)
  \/ \E p \in Slots : DownloadFail(p)
  \/ \E p \in Slots : DownloadFinish(p)
  \/ \E p \in Slots : ValidateDone(p)
  \/ \E p \in Slots : CloseCb(p)
  \/ \E p \in Procs : OpenCb(p)
  \/ \E p \in Procs : QueryCb(p)

SpecOverlap == InitOverlap /\ [][NextOverlap]_vars

\* ------------------------------------------------- compiling the facets
\* the server is up on dataset d and no refresh is to come: the snapshot
\* built from d is published (loaded), or none is yet
Quiet(d, loaded) ==
  /\ canonFile = [ds |-> d, kind |-> "db"]
  /\ tempFile = NoFile
  /\ xigDb = 1
  /\ conns = [c \in ConnIds |->
                IF c = 1
                  THEN [NewConn(canonFile) EXCEPT !.st = "open"]
                  ELSE UnusedConn]
  /\ configCache = IF loaded THEN 1 ELSE 0
  /\ snaps = [s \in SnapIds |->
                IF s = 1 /\ loaded THEN BuiltFrom(d) ELSE EmptyCache]
  /\ cacheLoadInProgress = FALSE
  /\ pc = [p \in Procs |-> IF p = Boot THEN "completed" ELSE "idle"]
  /\ inCatch = [p \in Procs |-> FALSE]
  /\ pending = [p \in Procs |-> 0]
  /\ newCache = [p \in Procs |-> 0]
  /\ qi = [p \in Procs |-> 0]
  /\ cand = [p \in Procs |-> 0]
  /\ pre = [p \in Procs |-> NoPre]
  /\ triggers = MaxRefresh
  /\ ended = "none"
  /\ caught = "none"
  /\ cacheLog = "none"
  /\ cronScheduled = TRUE
  /\ timerArmed = FALSE
  /\ req = NoReq

\* the handler has parsed req.query into queryParams
Parsed(query) ==
  /\ NoAux
  /\ qpc = "parsed"
  /\ queryParams = [f \in Facets |-> OrEmpty(query[f])]
  /\ offset = 0
  /\ filter = NoFilter
  /\ resourceCount = 0
  /\ resourceRows = << >>
  /\ seen = << >>
  /\ stats = << >>

\* the values of req.query the filter is compiled for
FacetValues ==
  [ver |-> {Str(<< >>), Str(<<"R4">>), Str(<<"R9">>), Arr(<<"R4">>)},
   auth |-> {Str(<< >>), Str(<<"hl7">>), Str(<<"o", "'", "b">>), Arr(<<"hl7">>)},
   realm |-> {Str(<< >>), Str(<<"u", "s">>), Str(<<"'">>), Arr(<<"u", "s">>)},
   type |-> {Str(<< >>), Str(<<"cs">>), Str(<<"rp">>), Str(<<"dp">>),
             Str(<<"lm">>), Str(<<"ext">>), Str(<<"vs">>), Str(<<"cm">>),
             Str(<<"zz">>), Arr(<<"cs">>)},
   rt |-> {Str(<< >>), Str(<<"Patient">>), Str(<<"string">>),
           Str(<<"Extension">>), Str(<<"sct">>), Str(<<"CodeSystem">>),
           Str(<<"bogus">>), Str(<<"x", "'">>), Arr(<<"Patient">>)},
   text |-> {Str(<< >>), Str(<<"a">>), Str(<<"'", ";">>), Arr(<<"a">>)}]

InitFilter ==
  /\ \E loaded \in BOOLEAN : Quiet(DiskDs, loaded)
  /\ \E ver \in FacetValues.ver, auth \in FacetValues.auth,
        realm \in FacetValues.realm, type \in FacetValues.type,
        rt \in FacetValues.rt, text \in FacetValues.text :
       Parsed([ver |-> ver, auth |-> auth, realm |-> realm, type |-> type,
               rt |-> rt, text |-> text])
  /\ scan = "asc"

\* a query step changes nothing of the dataset lifecycle
QueryOnly ==
  UNCHANGED << dbVars, fileVars, cacheVars, pc, inCatch, pending, callVars,
               bootVars, ended, caught, cacheLog, req, queryParams, scan,
               auxVars >>

\* buildSqlFilter(queryParams)
BuildFilter ==
  /\ qpc = "parsed"
  /\ qpc' = "filtered"
  /\ filter' = buildSqlFilter(queryParams)
  /\ UNCHANGED << offset, resourceCount, resourceRows, seen, stats >>
  /\ QueryOnly

NextFilter == BuildFilter

SpecFilter == InitFilter /\ [][NextFilter]_vars

\* ------------------------------------------------- counting and listing
\* the two statements: the WHERE clause of buildSqlFilter, and for the
\* listing ORDER BY ResourceType, Type, Description LIMIT limit OFFSET offset
buildResourceCountQuery(q) ==
  LET w == buildSqlFilter(q)
  IN [err |-> w.err, sel |-> "count", where |-> w.s, limit |-> 0, offset |-> 0]

\* buildResourceListQuery that puts the offset one row early
buildResourceListQueryFromOne(q, off, limit) ==
  LET w == buildSqlFilter(q)
  IN [err |-> w.err, sel |-> "list", where |-> w.s, limit |-> limit,
      offset |-> IF off > 0 THEN off - 1 ELSE 0]

buildResourceListQuery(q, off, limit) ==
  LET w == buildSqlFilter(q)
  IN [err |-> w.err, sel |-> "list", where |-> w.s, limit |-> limit,
      offset |-> off]

\* the words of the three ORDER BY columns in the order of the BINARY
\* collation; the empty value comes first
Collation ==
  << "CodeSystem", "ConceptMap", "Extension", "Model", "Patient",
     "StructureDefinition", "ValueSet", "a", "b", "string" >>

Rank(w) ==
  IF w = << >> THEN 0 ELSE CHOOSE i \in DOMAIN Collation : Collation[i] = w[1]

\* OrderKey without the Type column
OrderKeyWithoutType(r) == << Rank(r.ResourceType), 0, Rank(r.Description) >>

\* ORDER BY ResourceType, Type, Description
OrderKey(r) == << Rank(r.ResourceType), Rank(r.Type), Rank(r.Description) >>

Before(a, b) ==
  \/ a[1] < b[1]
  \/ a[1] = b[1] /\ a[2] < b[2]
  \/ a[1] = b[1] /\ a[2] = b[2] /\ a[3] < b[3]

\* the rows ms of a table of n rows in the order the engine visits them:
\* by ascending or by descending ResourceKey
Visit(ms, n, order) ==
  LET up == SelectSeq([i \in 1..n |-> i], LAMBDA k : k \in ms)
  IN IF order = "asc" THEN up
     ELSE [i \in DOMAIN up |-> up[Len(up) + 1 - i]]

\* the sorter: ascending by the ORDER BY key; rows with equal keys stay in
\* the order in which they were visited
RECURSIVE Ordered(_, _, _)
Ordered(ms, n, order) ==
  IF ms = {} THEN << >>
  ELSE LET ks == {OrderKey(Rec(k)) : k \in ms}
           least == CHOOSE a \in ks : \A b \in ks : ~Before(b, a)
           grp == {k \in ms : OrderKey(Rec(k)) = least}
       IN Visit(grp, n, order) \o Ordered(ms \ grp, n, order)

\* xigDb.get of a count statement on dataset d
RunCount(query, d) ==
  LET cw == Compiled(query.where)
  IN IF query.err \/ ~cw.ok THEN [err |-> TRUE, total |-> 0]
     ELSE [err |-> FALSE, total |-> Cardinality(Matching(cw, d))]

\* xigDb.all of a list statement on dataset d
RunList(query, d, order) ==
  LET cw == Compiled(query.where)
  IN IF query.err \/ ~cw.ok THEN [err |-> TRUE, rows |-> << >>]
     ELSE LET all == Ordered(Matching(cw, d), NRows(d), order)
              last == IF query.offset + query.limit < Len(all)
                        THEN query.offset + query.limit ELSE Len(all)
          IN [err |-> FALSE, rows |-> SubSeq(all, query.offset + 1, last)]

\* the facet combinations that are paged through
PagedQueries ==
  { NoParams,
    [NoParams EXCEPT !.realm = Str(<<"u", "s">>)],
    [NoParams EXCEPT !.ver = Str(<<"R4">>)],
    [NoParams EXCEPT !.type = Str(<<"cs">>), !.text = Str(<<"a">>)],
    [NoParams EXCEPT !.type = Str(<<"ext">>), !.rt = Str(<<"Patient">>)],
    [NoParams EXCEPT !.type = Str(<<"dp">>)],
    [NoParams EXCEPT !.auth = Str(<<"hl7">>), !.text = Str(<<"b">>)],
    [NoParams EXCEPT !.rt = Str(<<"StructureDefinition">>)],
    [NoParams EXCEPT !.realm = Str(<<"z", "z">>)] }

\* a client asks for the pages of one facet combination, from offset 0, on
\* one dataset and one snapshot
InitPages ==
  /\ \E d \in Datasets : Quiet(d, TRUE)
  /\ \E q \in PagedQueries : Parsed(q)
  /\ scan \in {"asc", "desc"}

\* the count statement of the handler
CountQuery ==
  /\ qpc = "parsed"
  /\ qpc' = "counted"
  /\ filter' = buildSqlFilter(queryParams)
  /\ resourceCount' = RunCount(buildResourceCountQuery(queryParams),
                               conns[xigDb].ds).total
  /\ UNCHANGED << offset, resourceRows, seen, stats >>
  /\ QueryOnly

\* the list statement of buildResourceTable for the page at offset; the
\* client then asks for the next page, until a page is empty
ListQuery ==
  /\ qpc \in {"counted", "listed"}
  /\ LET res == RunList(buildResourceListQuery(queryParams, offset, PageSize),
                        conns[xigDb].ds, scan)
     IN /\ resourceRows' = res.rows
        /\ seen' = seen \o res.rows
        /\ qpc' = IF res.rows = << >> THEN "paged" ELSE "listed"
        /\ offset' = IF res.rows = << >> THEN offset ELSE offset + PageSize
  /\ UNCHANGED << filter, resourceCount, stats >>
  /\ QueryOnly

\* the client asks for the last page once more
ListAgain ==
  /\ qpc = "listed"
  /\ qpc' = "repeated"
  /\ resourceRows' =
       RunList(buildResourceListQuery(queryParams, offset - PageSize, PageSize),
               conns[xigDb].ds, scan).rows
  /\ UNCHANGED << offset, filter, resourceCount, seen, stats >>
  /\ QueryOnly

NextPages ==
  \/ CountQuery
  \/ ListQuery
  \/ ListAgain

SpecPages == InitPages /\ [][NextPages]_vars

\* ------------------------------------------------------ buildSummaryStats
\* `!ver || ver === ''` that is always true
ShownAlways(v) == TRUE

\* `!ver || ver === ''`: the breakdown of a facet is rendered only when the
\* request has no value for that facet
Shown(v) == ~Applied(v)

\* getCachedSet('versions'): the sorted members, [] when the snapshot is
\* not loaded
getCachedSet(tableName) ==
  LET c == snaps[configCache]
  IN IF c.loaded /\ tableName \in DOMAIN c.tabs /\ tableName = "versions"
       THEN << "R2", "R2B", "R3", "R4", "R4B", "R5", "R6" >>
       ELSE << >>

\* SELECT COUNT(*) as count FROM Resources ${currentFilter} AND ${version} = 1
VersionCountQuery(cur, version) ==
  [err |-> FALSE, sel |-> "count", limit |-> 0, offset |-> 0,
   where |-> IF cur = << >> THEN << "WHERE ", version, " = 1" >>
             ELSE cur \o << " AND", " ", version, " = 1" >>]

\* the values of a column in the order of ORDER BY on it
ColumnCodes(col) == IF col = "Realm" THEN RealmCodes ELSE AuthorityCodes

\* xigDb.all of SELECT col, COUNT(*) as count FROM Resources ${where}
\* GROUP BY col ORDER BY col, on dataset d
RunGroup(col, where, d) ==
  LET ms == Matching(Compiled(where), d)
      codes == SelectSeq(ColumnCodes(col),
                         LAMBDA c : \E k \in ms : Rec(k)[col] = c)
  IN [i \in DOMAIN codes |->
        [code |-> codes[i],
         count |-> Cardinality({k \in ms : Rec(k)[col] = codes[i]})]]

\* the <li> entries rendered for the rows of the authority statement
AuthorityEntries(res) ==
  [i \in DOMAIN res |->
     [label |-> IF res[i].code = << >> THEN <<"none">> ELSE res[i].code,
      count |-> res[i].count]]

\* the <li> entries rendered for the rows of the realm statement: c counts
\* the rows of the result whose code is longer than 3
RealmEntries(res) ==
  LET short == SelectSeq(res, LAMBDA x : Len(x.code) <= 3)
      c == Len(SelectSeq(res, LAMBDA x : Len(x.code) > 3))
  IN [i \in DOMAIN short |->
        [label |-> IF short[i].code = << >> THEN <<"none">> ELSE short[i].code,
         count |-> short[i].count]]
     \o (IF c > 0 THEN << [label |-> <<"other">>, count |-> c] >> ELSE << >>)

NoBreakdown == [shown |-> FALSE, entries |-> << >>]

\* what buildSummaryStats renders: err when buildSqlFilter threw, and the
\* three lists
buildSummaryStats(q) ==
  LET cur == buildSqlFilter(q)
      d == conns[xigDb].ds
      versions == getCachedSet("versions")
  IN IF cur.err
       THEN [err |-> TRUE, versions |-> NoBreakdown,
             authorities |-> NoBreakdown, realms |-> NoBreakdown]
     ELSE
       [err |-> FALSE,
        versions |->
          IF Shown(q.ver)
            THEN [shown |-> TRUE,
                  entries |->
                    [i \in DOMAIN versions |->
                       [label |-> << versions[i] >>,
                        count |-> RunCount(VersionCountQuery(cur.s, versions[i]),
                                           d).total]]]
            ELSE NoBreakdown,
        authorities |->
          IF Shown(q.auth)
            THEN [shown |-> TRUE,
                  entries |-> AuthorityEntries(RunGroup("Authority", cur.s, d))]
            ELSE NoBreakdown,
        realms |->
          IF Shown(q.realm)
            THEN [shown |-> TRUE,
                  entries |-> RealmEntries(RunGroup("Realm", cur.s, d))]
            ELSE NoBreakdown]

\* the facet combinations whose summary is built
StatsValues ==
  [ver |-> {Str(<< >>), Str(<<"R4">>), Str(<<"R9">>)},
   auth |-> {Str(<< >>), Str(<<"hl7">>), Arr(<<"hl7">>)},
   realm |-> {Str(<< >>), Str(<<"u", "s">>), Str(<<"l", "o", "n", "g">>)},
   type |-> {Str(<< >>), Str(<<"cs">>), Str(<<"ext">>)}]

InitStats ==
  /\ \E d \in Datasets, loaded \in BOOLEAN : Quiet(d, loaded)
  /\ \E ver \in StatsValues.ver, auth \in StatsValues.auth,
        realm \in StatsValues.realm, type \in StatsValues.type :
       Parsed([NoParams EXCEPT !.ver = ver, !.auth = auth, !.realm = realm,
                               !.type = type])
  /\ scan = "asc"

\* buildSummaryStats(queryParams, '/xig/resources')
SummaryStats ==
  /\ qpc = "parsed"
  /\ qpc' = "summarised"
  /\ filter' = buildSqlFilter(queryParams)
  /\ stats' = buildSummaryStats(queryParams)
  /\ UNCHANGED << offset, resourceCount, resourceRows, seen >>
  /\ QueryOnly

NextStats == SummaryStats

SpecStats == InitStats /\ [][NextStats]_vars

\* ------------------------------------------------- packages by identity
\* number of rows of the Packages table
NPackages == 2
\* length of a package identity string
MaxPidLen == 2

\* the characters of a PID: '#', '|' and any other
PidChars == {"a", "#", "|"}

\* the values of Packages.PID: '' (or NULL) and the strings over PidChars
Pids == UNION {[1..n -> PidChars] : n \in 0..MaxPidLen}

\* s.replace(/from/g, to)
Replace(s, from, to) == [i \in DOMAIN s |-> IF s[i] = from THEN to ELSE s[i]]

\* `const pidKey = row.PID ? row.PID.replace(/#/g, '|') : row.PID`
PidKey(pid) == IF pid # << >> THEN Replace(pid, "#", "|") ELSE pid

\* the packagesById map after the forEach over rows: a row with a truthy
\* key is set, a later row with the same key replaces the earlier
RECURSIVE Indexed(_)
Indexed(rows) ==
  IF rows = << >> THEN << >>
  ELSE LET before == Indexed(SubSeq(rows, 1, Len(rows) - 1))
           row == rows[Len(rows)]
           pidKey == PidKey(row.PID)
       IN IF pidKey # << >>
            THEN [k \in DOMAIN before \cup {pidKey} |->
                    IF k = pidKey THEN row.PackageKey ELSE before[k]]
            ELSE before

\* Map.get: undefined (0) for a key that is not set
MapGet(m, k) == IF k \in DOMAIN m THEN m[k] ELSE 0

\* the link of a row of the listing: PID with '#' replaced by '|'
LinkPid(pid) == Replace(pid, "#", "|")

\* getPackageByPid: null (0) when the snapshot is not loaded; else the
\* entry of pid, or of pid with '#' replaced by '|'
getPackageByPid(pid) ==
  IF ~snaps[configCache].loaded THEN 0
  ELSE IF MapGet(packagesById, pid) # 0 THEN MapGet(packagesById, pid)
  ELSE MapGet(packagesById, Replace(pid, "#", "|"))

\* the server is up on a loaded snapshot whose package index was built
\* from the rows of the Packages table; no two packages have the same PID
InitPackages ==
  /\ Quiet(DiskDs, TRUE)
  /\ \E pids \in [1..NPackages -> Pids] :
       /\ \A j, k \in 1..NPackages : pids[j] = pids[k] => j = k
       /\ packages = [k \in 1..NPackages |->
                        [PackageKey |-> k, PID |-> pids[k]]]
  /\ packagesById = Indexed(packages)
  /\ linked = 0 /\ packagePid = << >> /\ packageObj = 0
  /\ NoListing /\ NoPagination /\ NoFetch /\ NoDependencies

\* the link of package k is followed: the detail route replaces '|' by
\* '#' and calls getPackageByPid
ResourceDetail(k) ==
  /\ qpc \in {"none", "resolved"}
  /\ packages[k].PID # << >>
  /\ qpc' = "resolved"
  /\ linked' = k
  /\ packagePid' = LinkPid(packages[k].PID)
  /\ packageObj' = getPackageByPid(Replace(packagePid', "|", "#"))
  /\ UNCHANGED << packages, packagesById, offset, filter, resourceCount,
                  resourceRows, seen, stats, pageVars, fetchVars, depVars >>
  /\ UNCHANGED << dbVars, fileVars, cacheVars, pc, inCatch, pending, callVars,
                  bootVars, ended, caught, cacheLog, req, queryParams, scan >>

NextPackages == \E k \in 1..NPackages : ResourceDetail(k)

SpecPackages == InitPackages /\ [][NextPackages]_vars

\* ---------------------------------------------------- pagination controls
\* length of the offset parameter of the query string
MaxOffsetLen == 4

\* the characters of the offset parameter: a sign, digits, and any other
OffsetChars == {"-", "0", "2", "5", "x"}

\* the values of req.query.offset: absent ('') or a string
OffsetParams == UNION {[1..n -> OffsetChars] : n \in 0..MaxOffsetLen}

\* the results of the count query that the controls are rendered for
Counts == {1, 200, 201, 399, 400, 401}

DigitValue(c) ==
  CASE c = "0" -> 0 [] c = "2" -> 2 [] c = "5" -> 5 [] OTHER -> -1

\* the number that the decimal digits at the start of s read as; none when
\* s does not start with a digit
RECURSIVE Digits(_, _)
Digits(s, sofar) ==
  IF s = << >> \/ DigitValue(s[1]) < 0
    THEN sofar
    ELSE Digits(Tail(s), [none |-> FALSE, v |-> sofar.v * 10 + DigitValue(s[1])])

\* parseInt: an optional sign, then digits up to the first other
\* character; NaN (nan) when there is no digit
parseInt(s) ==
  LET signed == s # << >> /\ s[1] = "-"
      d == Digits(IF signed THEN Tail(s) ELSE s, [none |-> TRUE, v |-> 0])
  IN [nan |-> d.none, v |-> IF signed THEN 0 - d.v ELSE d.v]

\* `parseInt(req.query.offset || '0') || 0`
ParsedOffset(param) ==
  LET n == parseInt(IF param = << >> THEN <<"0">> ELSE param)
  IN IF n.nan THEN 0 ELSE n.v

Min(a, b) == IF a < b THEN a ELSE b

\* buildPaginationControls(count, offset, ...)
buildPaginationControls(count, off) ==
  IF count <= PageSize THEN NoControls
  ELSE [shown |-> TRUE,
        start |-> off > PageSize,
        prev |-> off >= PageSize,
        prevOffset |-> off - PageSize,
        from |-> off,
        to |-> Min(off + PageSize, count),
        next |-> off + PageSize < count,
        nextOffset |-> off + PageSize]

\* a request for the listing has arrived and the count query has answered
InitPagination ==
  /\ Quiet(DiskDs, TRUE)
  /\ NoPackages /\ NoFetch /\ NoDependencies
  /\ offsetParam \in OffsetParams
  /\ controls = NoControls
  /\ qpc = "none"
  /\ queryParams = NoParams
  /\ offset = 0
  /\ filter = NoFilter
  /\ resourceCount \in Counts
  /\ resourceRows = << >>
  /\ seen = << >>
  /\ scan = "asc"
  /\ stats = << >>

PaginationOnly ==
  /\ UNCHANGED << dbVars, fileVars, cacheVars, pc, inCatch, pending, callVars,
                  bootVars, ended, caught, cacheLog, req, queryParams, scan >>
  /\ UNCHANGED << filter, resourceCount, resourceRows, seen, stats, pkgVars,
                  offsetParam, fetchVars, depVars >>

\* `const offset = parseInt(queryParams.offset) || 0`
ParseOffset ==
  /\ qpc = "none"
  /\ qpc' = "parsed"
  /\ offset' = ParsedOffset(offsetParam)
  /\ UNCHANGED controls
  /\ PaginationOnly

\* buildResourceTable renders the controls
Paginate ==
  /\ qpc = "parsed"
  /\ qpc' = "paged"
  /\ controls' = buildPaginationControls(resourceCount, offset)
  /\ UNCHANGED offset
  /\ PaginationOnly

NextPagination == ParseOffset \/ Paginate

SpecPagination == InitPagination /\ [][NextPagination]_vars

\* ------------------------------------------------ downloadFile in detail
\* `maxRedirects = 5`
MaxRedirects == 5

\* the status codes of a response: success, another 2xx, a redirect, an
\* error
Statuses == {200, 204, 302, 404}

\* resolve() or reject() is called: a promise that is settled stays as it is
Settle(how) == IF promise = "pending" THEN how ELSE promise

\* updateXigDatabase has called downloadFile: the promise is pending and
\* attemptDownload(url, 0) has sent its request
InitFetch ==
  /\ Quiet(DiskDs, TRUE)
  /\ NoListing /\ NoPackages /\ NoPagination /\ NoDependencies
  /\ redirectCount = 0
  /\ request = "waiting"
  /\ armed = 0
  /\ promise = "pending"
  /\ statusCode = 0

FetchOnly ==
  /\ UNCHANGED << dbVars, fileVars, cacheVars, pc, inCatch, pending, callVars,
                  bootVars, ended, caught, cacheLog, req >>
  /\ UNCHANGED << qpc, queryParams, offset, filter, resourceCount,
                  resourceRows, seen, scan, stats, pkgVars, pageVars,
                  depVars >>

\* the response callback: a 3xx with a location header calls
\* attemptDownload with redirectCount + 1, which rejects when that exceeds
\* maxRedirects and sends the next request otherwise; any other status but
\* 200 rejects; 200 pipes the response into the file.  A response that is
\* not read leaves its socket idle with the timeout armed
Response(status, location) ==
  /\ request = "waiting"
  /\ statusCode' = status
  /\ IF status >= 300 /\ status < 400 /\ location
       THEN /\ redirectCount' = redirectCount + 1
            /\ armed' = armed + 1
            /\ IF redirectCount + 1 > MaxRedirects
                 THEN promise' = Settle("rejected") /\ request' = "none"
                 ELSE UNCHANGED << promise, request >>
     ELSE IF status # 200
       THEN /\ promise' = Settle("rejected")
            /\ request' = "none"
            /\ armed' = armed + 1
            /\ UNCHANGED redirectCount
     ELSE /\ request' = "streaming"
          /\ UNCHANGED << redirectCount, armed, promise >>
  /\ FetchOnly

\* request.on('error'): no response came
RequestError ==
  /\ request = "waiting"
  /\ promise' = Settle("rejected")
  /\ request' = "none"
  /\ UNCHANGED << redirectCount, armed, statusCode >>
  /\ FetchOnly

\* the setTimeout callback of the current request: destroy and reject
Timeout ==
  /\ request \in {"waiting", "streaming"}
  /\ promise' = Settle("rejected")
  /\ request' = "none"
  /\ UNCHANGED << redirectCount, armed, statusCode >>
  /\ FetchOnly

\* the setTimeout callback of an earlier request of the same call
StaleTimeout ==
  /\ armed > 0
  /\ armed' = armed - 1
  /\ promise' = Settle("rejected")
  /\ UNCHANGED << redirectCount, request, statusCode >>
  /\ FetchOnly

\* the server closes the idle socket of an earlier request: no listener
StaleClose ==
  /\ armed > 0
  /\ armed' = armed - 1
  /\ UNCHANGED << redirectCount, request, promise, statusCode >>
  /\ FetchOnly

\* fileStream.on('finish'): resolve
StreamFinish ==
  /\ request = "streaming"
  /\ promise' = Settle("resolved")
  /\ request' = "none"
  /\ UNCHANGED << redirectCount, armed, statusCode >>
  /\ FetchOnly

\* fileStream.on('error'): unlink and reject; the response is left unread
StreamError ==
  /\ request = "streaming"
  /\ promise' = Settle("rejected")
  /\ request' = "none"
  /\ armed' = armed + 1
  /\ UNCHANGED << redirectCount, statusCode >>
  /\ FetchOnly

\* the connection is closed while the body is read: the response emits
\* 'aborted' and 'close', for which no listener is registered; the request
\* emits no 'error' once a response was received, pipe() does not end the
\* file stream, and the timer of the closed socket is cleared
Aborted ==
  /\ request = "streaming"
  /\ request' = "none"
  /\ UNCHANGED << redirectCount, armed, promise, statusCode >>
  /\ FetchOnly

NextFetch ==
  \/ \E status \in Statuses, location \in BOOLEAN : Response(status, location)
  \/ RequestError
  \/ Timeout
  \/ StaleTimeout
  \/ StaleClose
  \/ StreamFinish
  \/ StreamError
  \/ Aborted

\* every event that can happen does happen in the end: a response, an
\* error or the timeout ends the wait of a request
SpecFetch == InitFetch /\ [][NextFetch]_vars /\ WF_vars(NextFetch)

\* ------------------------------------------------ resource dependencies
\* number of rows of the Resources table that DependencyList refers to
NResources == 3

ResourceKeys == 1..NResources

\* Resources.ResourceType of the row with ResourceKey k
DepType(k) == IF k % 2 = 1 THEN "StructureDefinition" ELSE "ValueSet"

\* the tables DependencyList can be: rows (SourceKey, TargetKey)
EdgeSets ==
  SUBSET {e \in ResourceKeys \X ResourceKeys : e[1] # e[2]}

\* ORDER BY ResourceType over the joined rows with the ResourceKeys in
\* keys; rows of one type come in the order of their keys
RECURSIVE ByType(_)
ByType(keys) ==
  IF keys = {} THEN << >>
  ELSE LET first ==
             CHOOSE k \in keys :
               \A j \in keys :
                 \/ Rank(<<DepType(k)>>) < Rank(<<DepType(j)>>)
                 \/ DepType(k) = DepType(j) /\ k <= j
       IN <<first>> \o ByType(keys \ {first})

\* dependenciesQuery: the resources with an edge to key
UsedBy(key) == ByType({e[1] : e \in {d \in edges : d[2] = key}})

\* usesQuery: the resources key has an edge to
Uses(key) == ByType({e[2] : e \in {d \in edges : d[1] = key}})

\* a part of the html: a heading, the `No resources found` line, a table
\* of buildDependencyTable, or the alert of the catch block
Part(tag, rows) == [tag |-> tag, rows |-> rows]

DependencySectionAlwaysTable(rows) == <<Part("table", rows)>>

\* `if (rows.length === 0) 'No resources found' else buildDependencyTable`
DependencySection(rows) ==
  IF Len(rows) = 0
    THEN <<Part("No resources found", << >>)>>
    ELSE <<Part("table", rows)>>

\* the detail page of a resource is being built on a dataset with some
\* DependencyList
InitDependencies ==
  /\ Quiet(DiskDs, TRUE)
  /\ NoListing /\ NoPackages /\ NoPagination /\ NoFetch
  /\ edges \in EdgeSets
  /\ resourceKey = 0
  /\ dependencies = NoRows
  /\ uses = NoRows
  /\ html = << >>

DependenciesOnly ==
  /\ UNCHANGED << dbVars, fileVars, cacheVars, pc, inCatch, pending, callVars,
                  bootVars, ended, caught, cacheLog, req >>
  /\ UNCHANGED << queryParams, offset, filter, resourceCount, resourceRows,
                  seen, scan, stats, pkgVars, pageVars, fetchVars, edges >>

\* buildResourceDependencies(key) up to the first awaited query
DependenciesStart(key) ==
  /\ qpc = "none"
  /\ qpc' = "usedBy"
  /\ resourceKey' = key
  /\ html' = <<Part("Resources that use this resource", << >>)>>
  /\ UNCHANGED << dependencies, uses >>
  /\ DependenciesOnly

\* the `Error loading dependencies` alert of the catch block
DependenciesFailed ==
  /\ qpc' = "done"
  /\ html' = Append(html, Part("Error loading dependencies", << >>))

\* the callback of dependenciesQuery, up to the second awaited query
UsedByCb(ok) ==
  /\ qpc = "usedBy"
  /\ IF ok
       THEN /\ dependencies' = [st |-> "rows", rows |-> UsedBy(resourceKey)]
            /\ html' = html \o DependencySection(UsedBy(resourceKey))
                          \o <<Part("Resources that this resource uses", << >>)>>
            /\ qpc' = "uses"
       ELSE /\ dependencies' = [st |-> "failed", rows |-> << >>]
            /\ DependenciesFailed
  /\ UNCHANGED << resourceKey, uses >>
  /\ DependenciesOnly

\* the callback of usesQuery, up to `return html`
UsesCb(ok) ==
  /\ qpc = "uses"
  /\ IF ok
       THEN /\ uses' = [st |-> "rows", rows |-> Uses(resourceKey)]
            /\ html' = html \o DependencySection(Uses(resourceKey))
            /\ qpc' = "done"
       ELSE /\ uses' = [st |-> "failed", rows |-> << >>]
            /\ DependenciesFailed
  /\ UNCHANGED << resourceKey, dependencies >>
  /\ DependenciesOnly

NextDependencies ==
  \/ \E key \in ResourceKeys : DependenciesStart(key)
  \/ \E ok \in BOOLEAN : UsedByCb(ok)
  \/ \E ok \in BOOLEAN : UsesCb(ok)

SpecDependencies == InitDependencies /\ [][NextDependencies]_vars

\* ------------------------------------------------------------ properties
\* the snapshot object a reader gets from `configCache`
Visible == snaps[configCache]

\* the rebuilds between setting and clearing cacheLoadInProgress
Rebuilding == {p \in Procs : pc[p] = "rebuild"}

\* every table has been assigned and loaded is true
Whole(s) == s.loaded /\ DOMAIN s.tabs = AllTables

\* C1: a read of configCache never gets an object that a rebuild is still
\* filling, and the contents a reader sees change only by the reference
\* moving to another object that is whole: a read sees the snapshot before
\* the publish or the one after it, never tables of both
C1_ReadsSeeWholeSnapshot ==
  /\ [](\A p \in Rebuilding : newCache[p] # configCache)
  /\ [][Visible' # Visible => configCache' # configCache /\ Whole(Visible')]_vars

\* a loaded snapshot is visible while a rebuild has assigned tables of a
\* newer dataset to another object
C1_Witness ==
  /\ Visible.loaded
  /\ \E p \in Rebuilding :
       \E t \in DOMAIN snaps[newCache[p]].tabs :
         snaps[newCache[p]].tabs[t] > Visible.tabs[t]

\* C2: a request reads one snapshot object and calls one connection object
\* in all its steps, and while the request is being handled that connection
\* is neither closed nor asked to close
C2_RequestHoldsOneView ==
  /\ Cardinality(req.snaps) <= 1
  /\ Cardinality(req.conns) <= 1
  /\ req.pc \notin {"idle", "sent"} =>
       \A c \in req.conns : conns[c].st # "closed" /\ ~conns[c].closeReq

\* C3: the calls of updateXigDatabase are serialized: no call is entered
\* while another has not returned
C3_Serialized == Cardinality(Running) <= 1

\* C4: at most one rebuild is between setting and clearing
\* cacheLoadInProgress, the flag is set exactly while one is, and a
\* loadConfigCache call made while the flag is set returns in the same
\* callback: it issues no query, changes no snapshot, publishes nothing, and
\* leaves nothing behind that would run a rebuild later
C4_OneRebuild ==
  /\ [](Cardinality(Rebuilding) <= 1 /\ (cacheLoadInProgress <=> Rebuilding # {}))
  /\ [][\A p \in Procs :
          (cacheLoadInProgress /\ pc[p] = "open" /\ pc'[p] # "open"
             /\ conns'[pending[p]].st = "open")
          => /\ cacheLog' = "skipped"
             /\ pc'[p] \notin {"rebuild", "open"}
             /\ pending'[p] = 0
             /\ UNCHANGED cacheVars]_vars

\* a loadConfigCache call returned at the guard while a rebuild was running
C4_Witness == cacheLog = "skipped" /\ cacheLoadInProgress /\ Rebuilding # {}

\* the callback in which the updateXigDatabase call of slot p returns
Returns(p) == pc[p] # "idle" /\ pc'[p] = "idle"

\* C5: the callback in which the download of a call fails runs the catch
\* block to its end: the call returns, and the connection, the published
\* snapshot and the file at XIG_DB_PATH are what they were
C5_FailedFetchChangesNothing ==
  [][\A p \in Slots :
       (pc[p] \in {"dl", "dlStream"} /\ caught' = "download"
          /\ pc'[p] \notin {"dl", "dlStream"})
       => /\ Returns(p)
          /\ UNCHANGED << xigDb, conns, canonFile, configCache, snaps >>]_vars

\* C6: when a call that failed returns, the temporary file does not exist,
\* the file at XIG_DB_PATH is the dataset that was there when the call began
\* (none if there was none), and if xigDb was a connection that served a
\* dataset then, xigDb is a connection that serves that dataset
C6_FailedRefreshServesPrior ==
  [][\A p \in Slots :
       (Returns(p) /\ ended' \in {"failed", "rejected"})
       => /\ tempFile' = NoFile
          /\ canonFile'.ds = pre[p].file
          /\ pre[p].served # 0 => Served(xigDb', conns') = pre[p].served]_vars

\* C7: a rebuild that ends in its catch block publishes nothing: configCache
\* references the same object as before and its contents are unchanged
C7_NoPartialPublish ==
  [][cacheLog' \in {"loadFailed", "loadFailedPartway"}
       => configCache' = configCache /\ Visible' = Visible]_vars

\* a rebuild failed after some tables were assigned, a loaded snapshot stays
C7_Witness == cacheLog = "loadFailedPartway" /\ Visible.loaded

\* C8: no call of updateXigDatabase ends with its promise rejected
C8_NeverRejects == ended # "rejected"

\* the callback in which the connection that the updateXigDatabase call of
\* slot p opened after the file swap reports that it is open
Reopened(p) ==
  /\ pc[p] = "open" /\ ~inCatch[p]
  /\ conns[pending[p]].st = "opening" /\ conns'[pending[p]].st = "open"

C10_PlaceholderOrWhole == Visible = EmptyCache \/ Whole(Visible)

\* a snapshot built from a dataset without a Resources table was published
C10_Witness ==
  /\ cacheLog \in {"updated", "listenerFailed"}
  /\ Visible.loaded
  /\ Visible.tabs["resourceTypes"] = 0
  /\ Visible.tabs["realms"] > 0

\* the connection objects that are open or being opened
Live == {c \in ConnIds : conns[c].st \in {"opening", "open"}}

\* C11: at most one connection is open or being opened, and it is the one
\* xigDb references: no connection that was replaced stays open and no
\* opened connection is left without the reference
C11_OneLiveConnection == Live \subseteq {xigDb}

\* the table of the snapshot that the refinement value is validated
\* against for a view type ("none": the view type ignores rt)
RtTable(type) ==
  CASE type = Str(<<"rp">>) -> "profileResources"
    [] type = Str(<<"dp">>) -> "profileTypes"
    [] type = Str(<<"ext">>) -> "extensionContexts"
    [] type \in {Str(<<"vs">>), Str(<<"cm">>)} -> "txSources"
    [] type \in {Str(<<"cs">>), Str(<<"lm">>)} -> "none"
    [] OTHER -> "resourceTypes"

\* rt is a value of the table its view type validates against in the
\* visible snapshot; never when the snapshot is not loaded
IsKnown(type, rt) ==
  LET c == snaps[configCache]
      t == RtTable(type)
  IN /\ c.loaded
     /\ t \in DOMAIN c.tabs
     /\ rt.k = "str"
     /\ rt.s \in TableRows(t, c.tabs[t])

\* the conjuncts of the compiled filter
FilterConjuncts == Compiled(filter.s).cs

\* C16: a refinement value that is not in the table its view type
\* validates against - every value when the snapshot is not loaded - gives
\* the same result of buildSqlFilter as the same facets without rt
C16_UnknownRtOmitted ==
  (qpc = "filtered" /\ ~IsKnown(queryParams.type, queryParams.rt))
    => filter = buildSqlFilter([queryParams EXCEPT !.rt = Str(<< >>)])

\* a filter was compiled for resource profiles with an rt that is a
\* datatype, not a resource, under a loaded snapshot
C16_Witness ==
  /\ qpc = "filtered"
  /\ snaps[configCache].loaded
  /\ queryParams.type = Str(<<"rp">>)
  /\ queryParams.rt = Str(<<"Extension">>)
  /\ ~filter.err /\ Len(FilterConjuncts) = 2

\* C17: for value sets and concept maps, an rt that is a code of the
\* terminology-source table of the loaded snapshot gives a filter with the
\* category clause (Mode = 1, Code = rt)
C17_TxSourceApplied ==
  ( /\ qpc = "filtered" /\ ~filter.err
    /\ queryParams.type \in {Str(<<"vs">>), Str(<<"cm">>)}
    /\ IsKnown(queryParams.type, queryParams.rt) )
    => \E i \in DOMAIN FilterConjuncts :
         /\ Form(FilterConjuncts[i]) = <<InCategories(1), "?", ")">>
         /\ Args(FilterConjuncts[i]) = <<queryParams.rt.s>>

\* what the facets other than type and rt ask of a row
OtherFacets(q, r) ==
  /\ Applied(q.realm) => r.Realm = q.realm.s
  /\ Applied(q.auth) => r.Authority = q.auth.s
  /\ (q.ver.k = "str" /\ q.ver.s \in {<<v>> : v \in VersionNames})
       => q.ver.s[1] \in r.Versions
  /\ Applied(q.text) => r.Description = q.text.s

\* C18: for extensions with a known context as rt the compiled filter
\* selects exactly the rows that are extensions, satisfy the other facets
\* and have a Categories row with Mode = 2 and that context as Code
C18_ExtensionContext ==
  ( /\ qpc = "filtered" /\ ~filter.err
    /\ queryParams.type = Str(<<"ext">>)
    /\ IsKnown(queryParams.type, queryParams.rt) )
    => /\ Compiled(filter.s).ok
       /\ Matching(Compiled(filter.s), DiskDs) =
            {k \in Keys(DiskDs) :
               /\ Rec(k).ResourceType = <<"StructureDefinition">>
               /\ Rec(k).Type = <<"Extension">>
               /\ OtherFacets(queryParams, Rec(k))
               /\ [Mode |-> 2, Code |-> queryParams.rt.s] \in Rec(k).Cats}

\* the filter for extensions in context Patient selects an extension, and
\* leaves out an extension that has Patient only as a Mode 1 category
C18_Witness ==
  /\ qpc = "filtered" /\ ~filter.err
  /\ queryParams.type = Str(<<"ext">>)
  /\ queryParams.rt = Str(<<"Patient">>)
  /\ Matching(Compiled(filter.s), DiskDs) # {}
  /\ \E k \in Keys(DiskDs) \ Matching(Compiled(filter.s), DiskDs) :
       /\ Rec(k).Type = <<"Extension">>
       /\ OtherFacets(queryParams, Rec(k))
       /\ [Mode |-> 1, Code |-> <<"Patient">>] \in Rec(k).Cats

\* C19: buildSqlFilter does not throw, whatever the facet values are, and
\* without any facet it gives the empty text
C19_FilterNeverThrows ==
  qpc = "filtered" =>
    /\ ~filter.err
    /\ (\A f \in Facets : ~Applied(queryParams[f])) => filter.s = << >>

\* the facets with each applied value of realm, auth and text replaced by
\* a plain word
Plain(q) ==
  [q EXCEPT !.realm = IF Applied(@) THEN Str(<<"w">>) ELSE @,
            !.auth = IF Applied(@) THEN Str(<<"w">>) ELSE @,
            !.text = IF Applied(@) THEN Str(<<"w">>) ELSE @]

\* the forms of the conjuncts of a filter text
Forms(text) ==
  LET cs == Compiled(text).cs
  IN [i \in DOMAIN cs |-> Form(cs[i])]

\* the literals of the template
TemplateLiterals ==
  {<<"CodeSystem">>, <<"StructureDefinition">>, <<"resource">>,
   <<"complex-type">>, <<"primitive-type">>, <<"logical">>, <<"Extension">>,
   <<"ValueSet">>, <<"ConceptMap">>}

\* C20: in a compiled filter every caller-supplied value is the content of
\* a literal, with its quotes doubled, so that the engine reads the value
\* back unchanged; the conjuncts are of the fixed forms, and which forms
\* there are does not depend on the characters of the values
C20_ValuesOnlyInLiterals ==
  (qpc = "filtered" /\ ~filter.err) =>
    /\ Compiled(filter.s).ok
    /\ Forms(filter.s) = Forms(buildSqlFilter(Plain(queryParams)).s)
    /\ \A i \in DOMAIN FilterConjuncts :
         \A j \in DOMAIN Args(FilterConjuncts[i]) :
           Args(FilterConjuncts[i])[j] \in
             TemplateLiterals \cup
               {queryParams[f].s : f \in {"realm", "auth", "rt", "text"}}
    /\ Applied(queryParams.realm) =>
         \E i \in DOMAIN FilterConjuncts :
           /\ Form(FilterConjuncts[i]) = <<" realm = ", "?">>
           /\ Args(FilterConjuncts[i]) = <<queryParams.realm.s>>

\* a filter was compiled from values that all have a quote character
C20_Witness ==
  /\ qpc = "filtered" /\ ~filter.err
  /\ queryParams.realm = Str(<<"'">>)
  /\ queryParams.auth = Str(<<"o", "'", "b">>)
  /\ queryParams.text = Str(<<"'", ";">>)
  /\ queryParams.type = Str(<<"ext">>)
  /\ queryParams.rt = Str(<<"x", "'">>)
  /\ Len(FilterConjuncts) = 6

Range(s) == {s[i] : i \in DOMAIN s}

\* the rows the count statement counted
Counted == Matching(Compiled(filter.s), conns[xigDb].ds)

\* C12: on one dataset and one snapshot, the rows of the pages at offsets
\* 0, 200, 400, ... are rows that the count statement counted, no row is in
\* two pages or twice in one, and when the empty page is reached the pages
\* hold every counted row: their number is the total of the count
C12_CountEqualsPages ==
  /\ qpc \in {"listed", "paged"} =>
       /\ Range(seen) \subseteq Counted
       /\ Cardinality(Range(seen)) = Len(seen)
  /\ qpc = "paged" =>
       /\ Len(seen) = resourceCount
       /\ Range(seen) = Counted

\* the key of the listing: record type, sub-type, description
ListingKey(k) ==
  << Rank(Rec(k).ResourceType), Rank(Rec(k).Type), Rank(Rec(k).Description) >>

\* three pages were listed and then the empty one, and the rows on either
\* side of a page boundary have equal sort keys
C12_Witness ==
  /\ qpc = "paged"
  /\ resourceCount > 2 * PageSize
  /\ \E p \in 1..2 :
       ListingKey(seen[p * PageSize]) = ListingKey(seen[p * PageSize + 1])

Label(code) == IF code = << >> THEN <<"none">> ELSE code

\* the entries es list value n for a label exactly when n is not 0
Lists(es, label, n) ==
  IF n = 0 THEN \A i \in DOMAIN es : es[i].label # label
  ELSE \E i \in DOMAIN es :
         /\ es[i] = [label |-> label, count |-> n]
         /\ \A j \in DOMAIN es : es[j].label = label => j = i

\* the counted rows with a realm code longer than 3
LongRealmRows == {k \in Counted : Len(Rec(k).Realm) > 3}

\* C14: the realm breakdown lists no realm code longer than 3, and has one
\* entry 'other' whose value is the number of rows that have such a code
C14_LongRealmsCombined ==
  (qpc = "summarised" /\ stats.realms.shown) =>
    /\ \A i \in DOMAIN stats.realms.entries :
         stats.realms.entries[i].label \in
           {<<"none">>, <<"other">>} \cup {c \in Range(RealmCodes) : Len(c) <= 3}
    /\ Lists(stats.realms.entries, <<"other">>, Cardinality(LongRealmRows))

\* the rows that match the facets q
RowsFor(q) == Matching(Compiled(buildSqlFilter(q).s), conns[xigDb].ds)

\* the entries es are the counts, by the column col, of the rows ms; for
\* the realm column only of the codes that are listed by themselves
Breakdown(es, col, ms) ==
  \A code \in {c \in Range(ColumnCodes(col)) : col = "Realm" => Len(c) <= 3} :
    Lists(es, Label(code), Cardinality({k \in ms : Rec(k)[col] = code}))

\* the entries es are the counts of the rows ms by version flag
VersionBreakdown(es, ms) ==
  \A v \in VersionNames :
    \E i \in DOMAIN es :
      es[i] = [label |-> <<v>>,
               count |-> Cardinality({k \in ms : v \in Rec(k).Versions})]

\* C15 as stated: each breakdown is computed, over the rows that match the
\* facets without the facet of the breakdown
C15_BreakdownOmitsOwnFacet ==
  (qpc = "summarised" /\ ~stats.err) =>
    /\ stats.authorities.shown
    /\ Breakdown(stats.authorities.entries, "Authority",
                 RowsFor([queryParams EXCEPT !.auth = Str(<< >>)]))
    /\ stats.realms.shown
    /\ Breakdown(stats.realms.entries, "Realm",
                 RowsFor([queryParams EXCEPT !.realm = Str(<< >>)]))
    /\ stats.versions.shown
    /\ snaps[configCache].loaded =>
         VersionBreakdown(stats.versions.entries,
                          RowsFor([queryParams EXCEPT !.ver = Str(<< >>)]))

\* C15 as the code has it: a breakdown is rendered exactly when the request
\* has no value for its facet, and it is then computed over the rows that
\* match the whole predicate; the version breakdown has an entry per
\* version of the loaded snapshot, none when no snapshot is loaded
C15_BreakdownWhenFacetUnset ==
  qpc = "summarised" =>
    IF filter.err THEN stats.err
    ELSE /\ ~stats.err
         /\ stats.authorities.shown <=> ~Applied(queryParams.auth)
         /\ stats.realms.shown <=> ~Applied(queryParams.realm)
         /\ stats.versions.shown <=> ~Applied(queryParams.ver)
         /\ stats.authorities.shown =>
              Breakdown(stats.authorities.entries, "Authority", Counted)
         /\ stats.realms.shown =>
              Breakdown(stats.realms.entries, "Realm", Counted)
         /\ stats.versions.shown =>
              IF snaps[configCache].loaded
                THEN VersionBreakdown(stats.versions.entries, Counted)
                ELSE stats.versions.entries = << >>
         /\ ~stats.authorities.shown => stats.authorities.entries = << >>
         /\ ~stats.realms.shown => stats.realms.entries = << >>
         /\ ~stats.versions.shown => stats.versions.entries = << >>

\* with auth and realm set only the version breakdown was rendered, over
\* the rows of that authority and realm
C15_Witness ==
  /\ qpc = "summarised" /\ ~stats.err
  /\ Applied(queryParams.auth) /\ Applied(queryParams.realm)
  /\ ~stats.authorities.shown /\ ~stats.realms.shown
  /\ stats.versions.shown
  /\ \E i \in DOMAIN stats.versions.entries : stats.versions.entries[i].count > 0

\* the outcomes of a loadConfigCache call that got past the first guard:
\* no connection, the snapshot published, a listener of 'cacheUpdated'
\* threw after the publish, a query failed
RebuildOutcomes ==
  {"noDb", "updated", "listenerFailed", "loadFailed", "loadFailedPartway"}

\* C29: cacheLoadInProgress is TRUE only while a rebuild is between its
\* first query and its finally block, and the callback in which a rebuild
\* ends - published, listener exception, failed query, no connection -
\* leaves it FALSE
C29_GuardReleased ==
  /\ [](cacheLoadInProgress => Rebuilding # {})
  /\ [][cacheLog' \in RebuildOutcomes => ~cacheLoadInProgress']_vars

\* a rebuild failed after some of its queries, and the guard is released
C29_Witness ==
  /\ cacheLog = "loadFailedPartway"
  /\ ~cacheLoadInProgress
  /\ Rebuilding = {}

\* the datasets that the tables of snapshot s were read from (a fixed
\* dictionary and a table left empty are read from none)
Sources(s) == {s.tabs[t] : t \in DOMAIN s.tabs} \ {0}

C25_EmptyCandidateRejected ==
  /\ [](canonFile.kind # "emptydb")
  /\ [][\A p \in Slots :
          (pc[p] = "validate" /\ pc'[p] # "validate"
             /\ tempFile.kind = "emptydb")
          => caught' = "validate"]_vars

\* the file at the temporary path is the download of call p, written to
\* its end
Fetched(p) ==
  tempFile.ds = cand[p] /\ tempFile.kind \in {"notdb", "emptydb", "db"}

\* call p is past `await validateDatabaseFile(tempPath)`, or in the callback
\* that ends it
Validating(p) == pc[p] \in {"validate", "closing"}

\* C26: a call takes its steps in the order download, validation, close,
\* file swap, reopen, rebuild; close() is called on the connection and the
\* file at XIG_DB_PATH is removed or replaced only by a call whose
\* candidate is written to its end and has been validated, and the file
\* that comes to XIG_DB_PATH is that candidate
C26_StepsInOrder ==
  [][/\ \A p \in Slots :
          /\ (pc'[p] = "dlStream" /\ pc[p] # "dlStream") => pc[p] = "dl"
          /\ (pc'[p] = "validate" /\ pc[p] # "validate") => pc[p] = "dlStream"
          /\ (pc'[p] = "closing" /\ pc[p] # "closing") => pc[p] = "validate"
          /\ (pc'[p] = "open" /\ pc[p] # "open" /\ ~inCatch'[p])
               => Validating(p) /\ canonFile' # canonFile
          /\ (pc'[p] = "rebuild" /\ pc[p] # "rebuild") => pc[p] = "open"
     /\ \A c \in ConnIds :
          (conns'[c].closeReq /\ ~conns[c].closeReq)
            => \E p \in Slots : pc[p] = "validate" /\ Fetched(p)
     /\ canonFile' # canonFile
          => \E p \in Slots :
               /\ Validating(p) /\ pc'[p] # pc[p]
               /\ Fetched(p)
               /\ canonFile' \in {NoFile, tempFile}]_vars

\* C28: when the last call of updateXigDatabase in progress returns, and a
\* dataset file existed and xigDb served it when that call began, a file
\* is at XIG_DB_PATH and xigDb is an open connection to that file
C28_DatasetNeverLost ==
  [][\A p \in Slots :
       (Returns(p) /\ Running' = {} /\ pre[p].file # 0 /\ pre[p].served # 0)
       => /\ canonFile' # NoFile
          /\ Served(xigDb', conns') = canonFile'.ds]_vars

\* C23: the link generated for a package with a non-empty identity string
\* resolves, through the lookup of the detail route, to that package
C23_LinkResolvesToPackage == qpc = "resolved" => packageObj = linked

\* the first row that LIMIT 200 OFFSET offset lists: SQLite reads a
\* negative OFFSET as 0
FirstListed == IF offset < 0 THEN 0 ELSE offset

\* C30: when the controls are shown, the range 'Rows from - to' satisfies
\* 0 <= from <= to <= count, a Prev link has an offset that is not
\* negative, and the Next link is there exactly when rows exist after the
\* listed page, with an offset less than the count
C30_ControlsMatchPage ==
  (qpc = "paged" /\ controls.shown)
    => /\ 0 <= controls.from
       /\ controls.from <= controls.to
       /\ controls.to <= resourceCount
       /\ controls.prev => controls.prevOffset >= 0
       /\ controls.next <=> FirstListed + PageSize < resourceCount
       /\ controls.next => controls.nextOffset < resourceCount

\* C24: the promise of downloadFile is settled in the end; no request is
\* sent after more than MaxRedirects redirects and the redirect after
\* that rejects; a response that ends the chain with a status other than
\* 200 rejects; the timeout of the request in progress rejects; and a
\* settled promise never changes
C24_FetchTerminates ==
  /\ <>(promise # "pending")
  /\ [](request # "none" => redirectCount <= MaxRedirects)
  /\ [](redirectCount > MaxRedirects => promise = "rejected")
  /\ [][(statusCode' # statusCode /\ request' = "none")
          => promise' = "rejected"]_vars
  /\ [][(request = "waiting" /\ promise = "pending" /\ request' = "none")
          => promise' = "rejected"]_vars
  /\ [][promise # "pending" => promise' = promise]_vars

\* the resources with an edge to (incoming) or from (outgoing) key
Incoming(key) == {k \in ResourceKeys : <<k, key>> \in edges}
Outgoing(key) == {k \in ResourceKeys : <<key, k>> \in edges}

\* what a section of the page shows for the set of resources it is to
\* list: the `No resources found` line for none, else a table of them
Shows(part, keys) ==
  IF keys = {} THEN part.tag = "No resources found"
  ELSE /\ part.tag = "table"
       /\ {part.rows[i] : i \in DOMAIN part.rows} = keys

\* C21: when both queries were answered, the page has the two headings, no
\* error alert, and under each heading the resources of that direction, or
\* the `No resources found` line when there are none - whatever the other
\* direction holds
C21_EmptyPerDirection ==
  (qpc = "done" /\ dependencies.st = "rows" /\ uses.st = "rows")
    => /\ Len(html) = 4
       /\ html[1].tag = "Resources that use this resource"
       /\ Shows(html[2], Incoming(resourceKey))
       /\ html[3].tag = "Resources that this resource uses"
       /\ Shows(html[4], Outgoing(resourceKey))

\* a resource without edges in either direction got both empty sections
C21_Witness ==
  /\ qpc = "done" /\ dependencies.st = "rows" /\ uses.st = "rows"
  /\ edges # {}
  /\ Incoming(resourceKey) = {} /\ Outgoing(resourceKey) = {}
  /\ html[2].tag = "No resources found"
  /\ html[4].tag = "No resources found"

\* the sections a request is to show: the count, the resource table, and
\* the breakdown of each facet it does not filter on
Expected(r) ==
  {"count", "list"} \cup (IF r.auth THEN {} ELSE {"authorities"})
                    \cup (IF r.realm THEN {} ELSE {"realms"})

\* C22: a response that was sent has every section the request is to
\* show - built from rows, or with the error description of its own query
\* when that failed: an error of one query leaves no other section out
C22_ErrorsStayLocal == req.pc = "sent" => Expected(req) \subseteq req.made

====
